---- MODULE Spec2Model ----
(***************************************************************************)
(* A model of the RustyDB execution core: the join operators               *)
(* (sql/execution/join.rs), the transform operators (transform.rs), the    *)
(* aggregation engine (aggregate.rs), the write operators (write.rs), the  *)
(* plan executor (execute.rs), the local engine (sql/engine/local.rs) and  *)
(* the schema model (types/schema.rs).                                     *)
(*                                                                         *)
(* A row stream (Rows) is modelled by the sequence of items the iterator   *)
(* has still to yield; an item is Ok((rid, row)) or Err(e).                *)
(***************************************************************************)
EXTENDS Integers, Sequences, FiniteSets

VARIABLES
    jin,        \* the arguments of the join under execution
    jPhase,     \* which join iterator the consumer is draining
    nl,         \* the NestedLoopIterator
    nlOut,      \* the items the nested loop join has yielded so far
    nlDone,     \* the nested loop join returned None
    hj,         \* the result of join::hash: an error, or the flat_map iterator
    hOut,       \* the items the hash join has yielded so far
    hDone       \* the hash join returned None

joinVars == <<jin, jPhase, nl, nlOut, nlDone, hj, hOut, hDone>>

VARIABLES
    tin,        \* the arguments of the transform under execution
    tr,         \* the Rows the transform returned (or its error)
    tOut,       \* the items the transform has yielded so far
    tDone       \* the transform returned None

transformVars == <<tin, tr, tOut, tDone>>

VARIABLES
    ain,        \* the arguments of the aggregation under execution
    aNullAdd,   \* what checked arithmetic does with a NULL operand
    aSource,    \* the source items aggregate has not taken yet
    aggregator, \* the Aggregator
    aRes        \* what aggregate returned

aggVars == <<ain, aNullAdd, aSource, aggregator, aRes>>

VARIABLES
    table1,         \* a schema under construction
    table2,         \* another schema under construction
    merged      \* the last merge of two schemas: its arguments and both results

schemaVars == <<table1, table2, merged>>

VARIABLES
    storage,    \* the stored rows of the table, by record identity
    xplan,      \* the plan of the last statement executed
    xres,       \* the result of the last statement executed
    xcalls      \* the storage mutations the last statement issued

engineVars == <<storage, xplan, xres, xcalls>>

VARIABLES
    win,        \* the arguments of a write operator and the store it works on
    wout        \* what the write operator returned, stored and called

writeVars == <<win, wout>>

VARIABLES
    tables,     \* the catalog: the table definitions by name
    clast,      \* by name, the kind of the last statement that succeeded on it
    cres        \* the last catalog statement and its result

catalogVars == <<tables, clast, cres>>

VARIABLES
    sel         \* a Select statement: its plan, its position and its result

selectVars == <<sel>>

VARIABLES
    builder,    \* a ColumnBuilder
    built,      \* the last column constructed, and by what
    tbuilder    \* the columns of a TableBuilder

columnVars == <<builder, built, tbuilder>>

vars == <<joinVars, transformVars, aggVars, schemaVars, engineVars, writeVars,
          catalogVars, selectVars, columnVars>>

restVars == <<writeVars, catalogVars, selectVars, columnVars>>

notJoinVars == <<transformVars, aggVars, schemaVars, engineVars, restVars>>
notTransformVars == <<joinVars, aggVars, schemaVars, engineVars, restVars>>
notAggVars == <<joinVars, transformVars, schemaVars, engineVars, restVars>>
notSchemaVars == <<joinVars, transformVars, aggVars, engineVars, restVars>>
notEngineVars == <<joinVars, transformVars, aggVars, schemaVars, restVars>>
coreVars == <<joinVars, transformVars, aggVars, schemaVars, engineVars>>
notWriteVars == <<coreVars, catalogVars, selectVars, columnVars>>
notCatalogVars == <<coreVars, writeVars, selectVars, columnVars>>
notSelectVars == <<coreVars, writeVars, catalogVars, columnVars>>
notColumnVars == <<coreVars, writeVars, catalogVars, selectVars>>

-----------------------------------------------------------------------------
(* Bounds of the model. *)

MaxLeft == 2
MaxRight == 2
MaxSource == 2
MaxColumns == 2
MaxRid == 2

-----------------------------------------------------------------------------
(* Fields, rows and stream items. *)

Null == [t |-> "Null", v |-> 0]
Integer(n) == [t |-> "Integer", v |-> n]
Boolean(b) == [t |-> "Boolean", v |-> IF b THEN 1 ELSE 0]

\* The record identity of a computed row.
INVALID_RID == 0

OkItem(rid, row) == [ok |-> TRUE, rid |-> rid, row |-> row, err |-> "none"]
ErrItem(e) == [ok |-> FALSE, rid |-> INVALID_RID, row |-> <<>>, err |-> e]

SeqsUpTo(S, n) == UNION {[1..k -> S] : k \in 0..n}

Range(s) == {s[i] : i \in 1..Len(s)}

\* The number of positions of s that hold x.
CountOf(x, s) == Cardinality({i \in 1..Len(s) : s[i] = x})

SameMultiset(a, b) ==
    /\ Len(a) = Len(b)
    /\ \A x \in Range(a) \cup Range(b) : CountOf(x, a) = CountOf(x, b)

Nulls(n) == [i \in 1..n |-> Null]

ErrorFree(s) == \A i \in 1..Len(s) : s[i].ok

\* Field::is_undefined: NULL (and NaN, for floats) never equals anything.
is_undefined(value) == value.t = "Null"

-----------------------------------------------------------------------------
(* Expressions: the evaluator is a collaborator of the execution core.     *)
(* Column indexes are 1-based here.                                        *)

NoPredicate == [op |-> "None", i |-> 0, j |-> 0]
Column(i) == [op |-> "Column", i |-> i, j |-> 0]
Equal(i, j) == [op |-> "Equal", i |-> i, j |-> j]

EvalOk(val) == [ok |-> TRUE, val |-> val, err |-> "none"]
EvalErr(e) == [ok |-> FALSE, val |-> Null, err |-> e]

\* Expression::evaluate(Some(row)): a column reference yields the field, an
\* equality is three-valued (NULL when either side is NULL).
evaluate(expr, row) ==
    IF expr.op = "Column"
    THEN IF expr.i \in 1..Len(row) THEN EvalOk(row[expr.i]) ELSE EvalErr("eval")
    ELSE IF expr.i \notin 1..Len(row) \/ expr.j \notin 1..Len(row)
         THEN EvalErr("eval")
         ELSE IF is_undefined(row[expr.i]) \/ is_undefined(row[expr.j])
              THEN EvalOk(Null)
              ELSE EvalOk(Boolean(row[expr.i] = row[expr.j]))

-----------------------------------------------------------------------------
(* join.rs: the nested loop join. *)

RetNone == [tag |-> "None", item |-> ErrItem("none")]
RetExhausted == [tag |-> "Exhausted", item |-> ErrItem("none")]
RetSome(item) == [tag |-> "Some", item |-> item]
RetErr(e) == [tag |-> "Err", item |-> ErrItem(e)]

\* An iterator that keeps no copy of the right source to start over from.
nl_new_no_restart(left, right, right_size, predicate, outer) ==
    [left |-> left, right |-> right, right_init |-> <<>>,
     right_size |-> right_size, right_match |-> FALSE,
     predicate |-> predicate, outer |-> outer]

\* NestedLoopIterator::new
nl_new(left, right, right_size, predicate, outer) ==
    [left |-> left, right |-> right, right_init |-> right,
     right_size |-> right_size, right_match |-> FALSE,
     predicate |-> predicate, outer |-> outer]

\* What try_next does when the peeked left item is an error.
left_peek_err(e) == RetNone

\* Whether a predicate result counts as a match: Field::Boolean(true) => true,
\* _ => false.
predicate_result(val) ==
    IF val = Boolean(TRUE) THEN [ok |-> TRUE, matches |-> TRUE, err |-> "none"]
    ELSE [ok |-> TRUE, matches |-> FALSE, err |-> "none"]

\* "let matches = ...": the predicate on the combined row, if there is one.
predicate_matches(predicate, combined_row) ==
    IF predicate.op = "None"
    THEN [ok |-> TRUE, matches |-> TRUE, err |-> "none"]
    ELSE LET r == evaluate(predicate, combined_row)
         IN  IF ~r.ok THEN [ok |-> FALSE, matches |-> FALSE, err |-> r.err]
             ELSE predicate_result(r.val)

\* The "while let Some(right_result) = self.right.next()" loop of try_next.
RECURSIVE right_loop(_, _)
right_loop(self, left_row) ==
    IF self.right = <<>> THEN [self |-> self, ret |-> RetExhausted]
    ELSE LET right_result == Head(self.right)
             s1 == [self EXCEPT !.right = Tail(@)]
         IN  IF ~right_result.ok
             THEN [self |-> s1, ret |-> RetErr(right_result.err)]
             ELSE LET combined_row == left_row \o right_result.row
                      m == predicate_matches(self.predicate, combined_row)
                  IN  IF ~m.ok THEN [self |-> s1, ret |-> RetErr(m.err)]
                      ELSE IF m.matches
                      THEN [self |-> [s1 EXCEPT !.right_match = TRUE],
                            ret |-> RetSome(OkItem(INVALID_RID, combined_row))]
                      ELSE right_loop(s1, left_row)

\* An outer join that pads every left row, matched or not.
emit_null_row_always(self) == self.outer

\* "if self.outer && !self.right_match": the NULL-padded row is due.
emit_null_row(self) == self.outer /\ ~self.right_match

\* NestedLoopIterator::try_next. The left item taken by self.left.next() is
\* the Ok item that was peeked, so its transpose()? never fails.
RECURSIVE try_next(_)
try_next(self) ==
    IF self.left = <<>> THEN [self |-> self, ret |-> RetNone]
    ELSE LET row_result == Head(self.left)
         IN  IF ~row_result.ok
             THEN [self |-> self, ret |-> left_peek_err(row_result.err)]
             ELSE LET r == right_loop(self, row_result.row)
                      left_row == row_result.row
                      s2 == [r.self EXCEPT !.left = Tail(@),
                                           !.right_match = FALSE,
                                           !.right = r.self.right_init]
                  IN  IF r.ret.tag # "Exhausted" THEN r
                      ELSE IF emit_null_row(r.self)
                      THEN [self |-> s2,
                            ret |-> RetSome(OkItem(INVALID_RID,
                                        left_row \o Nulls(r.self.right_size)))]
                      ELSE try_next(s2)

\* join::nested_loop
nested_loop(left, right, right_size, predicate, outer) ==
    nl_new(left, right, right_size, predicate, outer)

-----------------------------------------------------------------------------
(* join.rs: the hash join. *)

EmptyTable == [k \in {} |-> <<>>]

\* A bucket that takes a new row at its front.
entry_push_front(table, value, row) ==
    [k \in DOMAIN table \cup {value} |->
        IF k \in DOMAIN table
        THEN IF k = value THEN <<row>> \o table[k] ELSE table[k]
        ELSE <<row>>]

\* right.entry(value).or_default().push(row)
entry_push(table, value, row) ==
    [k \in DOMAIN table \cup {value} |->
        IF k \in DOMAIN table
        THEN IF k = value THEN Append(table[k], row) ELSE table[k]
        ELSE <<row>>]

\* A build loop that keeps NULL keys in the hash table.
skip_right_row_keep_null(value) == FALSE

\* Whether the build loop leaves a right row out of the hash table.
skip_right_row(value) == is_undefined(value)

\* The build loop of join::hash: drains the right source into the table.
RECURSIVE hash_build(_, _, _)
hash_build(rows, right_column, table) ==
    IF rows = <<>> THEN [ok |-> TRUE, table |-> table, err |-> "none", rest |-> rows]
    ELSE LET item == Head(rows)
         IN  IF ~item.ok
             THEN [ok |-> FALSE, table |-> table, err |-> item.err, rest |-> Tail(rows)]
             ELSE IF right_column \notin 1..Len(item.row)
             THEN [ok |-> FALSE, table |-> table, err |-> "eval", rest |-> Tail(rows)]
             ELSE LET value == item.row[right_column]
                  IN  IF skip_right_row(value)
                      THEN hash_build(Tail(rows), right_column, table)
                      ELSE hash_build(Tail(rows), right_column,
                                      entry_push(table, value, item.row))

\* The closure given to left.flat_map: the items one left item expands to.
hash_flat_map_fn(self, result) ==
    IF ~result.ok THEN <<result>>
    ELSE LET row == result.row
             key == row[self.left_column]
         IN  IF key \in DOMAIN self.right
             THEN [i \in 1..Len(self.right[key]) |->
                      OkItem(INVALID_RID, row \o self.right[key][i])]
             ELSE IF self.outer
             THEN <<OkItem(INVALID_RID, row \o Nulls(self.right_size))>>
             ELSE <<>>

\* A hash join that takes the first left item when it is called.
hash_prefetching(left, left_column, right, right_column, right_size, outer) ==
    LET b == hash_build(right, right_column, EmptyTable)
        join == [status |-> IF b.ok THEN "ok" ELSE "err", err |-> b.err,
                 left |-> left, inner |-> <<>>,
                 right |-> b.table, right_rest |-> b.rest, left_column |-> left_column,
                 right_size |-> right_size, outer |-> outer]
    IN  IF ~b.ok \/ left = <<>> THEN join
        ELSE [join EXCEPT !.left = Tail(left),
                          !.inner = hash_flat_map_fn(join, Head(left))]

\* join::hash: the call fails when the right source does, otherwise it
\* returns the lazy flat_map iterator over the left source.
hash(left, left_column, right, right_column, right_size, outer) ==
    LET b == hash_build(right, right_column, EmptyTable)
    IN  IF ~b.ok
        THEN [status |-> "err", err |-> b.err, left |-> left, inner |-> <<>>,
              right |-> b.table, right_rest |-> b.rest, left_column |-> left_column,
              right_size |-> right_size, outer |-> outer]
        ELSE [status |-> "ok", err |-> "none", left |-> left, inner |-> <<>>,
              right |-> b.table, right_rest |-> b.rest, left_column |-> left_column,
              right_size |-> right_size, outer |-> outer]

\* FlatMap::next on the iterator join::hash returns.
RECURSIVE hash_next(_)
hash_next(self) ==
    IF self.inner # <<>>
    THEN [self |-> [self EXCEPT !.inner = Tail(@)], ret |-> RetSome(Head(self.inner))]
    ELSE IF self.left = <<>> THEN [self |-> self, ret |-> RetNone]
    ELSE hash_next([self EXCEPT !.left = Tail(@),
                                !.inner = hash_flat_map_fn(self, Head(self.left))])

-----------------------------------------------------------------------------
(* transform.rs: the transform operators. A lazy adaptor is the record of  *)
(* its arguments and of the source items not taken yet.                    *)

Ascending == "Ascending"
Descending == "Descending"

\* Field's total order (Ord): NULL first, then booleans, then integers.
TypeRank(f) == IF f.t = "Null" THEN 0 ELSE IF f.t = "Boolean" THEN 1 ELSE 2

FieldCmp(a, b) ==
    IF TypeRank(a) < TypeRank(b) THEN -1
    ELSE IF TypeRank(a) > TypeRank(b) THEN 1
    ELSE IF a.v < b.v THEN -1
    ELSE IF a.v > b.v THEN 1
    ELSE 0

TransformIter(op, source) ==
    [op |-> op, status |-> "ok", err |-> "none", source |-> source, n |-> 0,
     predicate |-> NoPredicate, expressions |-> <<>>, targets |-> <<>>]

\* A filter closure that drops every row whose predicate is not true.
filter_item_lenient(predicate, x) ==
    IF ~x.ok THEN RetSome(x)
    ELSE LET r == evaluate(predicate, x.row)
         IN  IF ~r.ok THEN RetErr(r.err)
             ELSE IF r.val = Boolean(TRUE) THEN RetSome(x)
             ELSE RetExhausted

\* A filter closure that drops the errors of the source.
filter_item_dropping_errors(predicate, x) ==
    IF ~x.ok THEN RetExhausted
    ELSE LET r == evaluate(predicate, x.row)
         IN  IF ~r.ok THEN RetErr(r.err)
             ELSE IF r.val = Boolean(TRUE) THEN RetSome(x)
             ELSE IF r.val = Boolean(FALSE) \/ r.val = Null THEN RetExhausted
             ELSE RetErr("invalid_input")

\* The closure of transform::filter on one source item: the item to yield,
\* or "Exhausted" when filter_map drops it.
filter_item(predicate, x) ==
    IF ~x.ok THEN RetSome(x)
    ELSE LET r == evaluate(predicate, x.row)
         IN  IF ~r.ok THEN RetErr(r.err)
             ELSE IF r.val = Boolean(TRUE) THEN RetSome(x)
             ELSE IF r.val = Boolean(FALSE) \/ r.val = Null THEN RetExhausted
             ELSE RetErr("invalid_input")

\* transform::filter
filter(source, predicate) ==
    [TransformIter("filter", source) EXCEPT !.predicate = predicate]

\* FilterMap::next on the iterator transform::filter returns.
RECURSIVE filter_next(_)
filter_next(self) ==
    IF self.source = <<>> THEN [self |-> self, ret |-> RetNone]
    ELSE LET r == filter_item(self.predicate, Head(self.source))
             s1 == [self EXCEPT !.source = Tail(@)]
         IN  IF r.tag = "Exhausted" THEN filter_next(s1)
             ELSE [self |-> s1, ret |-> r]

\* transform::limit
limit(source, n) == [TransformIter("limit", source) EXCEPT !.n = n]

\* A Take that never counts what it took.
limit_next_uncounted(self) ==
    IF self.n = 0 \/ self.source = <<>> THEN [self |-> self, ret |-> RetNone]
    ELSE [self |-> [self EXCEPT !.source = Tail(@)], ret |-> RetSome(Head(self.source))]

\* Take::next: nothing is asked of the source once n items were taken.
limit_next(self) ==
    IF self.n = 0 THEN [self |-> self, ret |-> RetNone]
    ELSE IF self.source = <<>>
    THEN [self |-> [self EXCEPT !.n = @ - 1], ret |-> RetNone]
    ELSE [self |-> [self EXCEPT !.n = @ - 1, !.source = Tail(@)],
          ret |-> RetSome(Head(self.source))]

\* The items left of s once its first n items are dropped, whatever they are.
DropFirst(s, n) == IF n >= Len(s) THEN <<>> ELSE SubSeq(s, n + 1, Len(s))

\* An offset that skips nothing.
offset_zero(source, n) == [TransformIter("offset", source) EXCEPT !.n = 0]

\* transform::offset
offset(source, n) == [TransformIter("offset", source) EXCEPT !.n = n]

\* Skip::next: the first call discards n items of the source (nth).
offset_next(self) ==
    LET rest == DropFirst(self.source, self.n)
    IN  IF rest = <<>>
        THEN [self |-> [self EXCEPT !.n = 0, !.source = <<>>], ret |-> RetNone]
        ELSE [self |-> [self EXCEPT !.n = 0, !.source = Tail(rest)],
              ret |-> RetSome(Head(rest))]

\* The evaluation of a list of expressions on a row, stopping at the first
\* failure (try_collect, or a loop with ?).
RECURSIVE evaluate_all(_, _)
evaluate_all(expressions, row) ==
    IF expressions = <<>> THEN [ok |-> TRUE, vals |-> <<>>, err |-> "none"]
    ELSE LET r == evaluate(Head(expressions), row)
         IN  IF ~r.ok THEN [ok |-> FALSE, vals |-> <<>>, err |-> r.err]
             ELSE LET rest == evaluate_all(Tail(expressions), row)
                  IN  IF ~rest.ok THEN rest
                      ELSE [ok |-> TRUE, vals |-> <<r.val>> \o rest.vals, err |-> "none"]

\* transform::project
project(source, expressions) ==
    [TransformIter("project", source) EXCEPT !.expressions = expressions]

\* A projection that emits its rows without the identity of their source row.
project_item_unidentified(expressions, item) ==
    IF ~item.ok THEN item
    ELSE LET r == evaluate_all(expressions, item.row)
         IN  IF ~r.ok THEN ErrItem(r.err) ELSE OkItem(INVALID_RID, r.vals)

\* The closure of transform::project on one source item.
project_item(expressions, item) ==
    IF ~item.ok THEN item
    ELSE LET r == evaluate_all(expressions, item.row)
         IN  IF ~r.ok THEN ErrItem(r.err) ELSE OkItem(item.rid, r.vals)

project_next(self) ==
    IF self.source = <<>> THEN [self |-> self, ret |-> RetNone]
    ELSE [self |-> [self EXCEPT !.source = Tail(@)],
          ret |-> RetSome(project_item(self.expressions, Head(self.source)))]

\* A width that is the number of the declared targets.
remap_size_declared(targets) ==
    Cardinality({j \in 1..Len(targets) : targets[j] # 0})

\* The width of a remapped row. A target is a 1-based column index here,
\* 0 for None.
remap_size(targets) ==
    IF \A j \in 1..Len(targets) : targets[j] = 0 THEN 0
    ELSE CHOOSE m \in Range(targets) : \A j \in 1..Len(targets) : targets[j] <= m

\* The closure of transform::remap on one row: the last source column sent
\* to a slot wins, a slot no column is sent to is NULL.
remap_row(targets, row) ==
    LET zipped == {j \in 1..Len(row) : j <= Len(targets)}
    IN  [t \in 1..remap_size(targets) |->
            IF \E j \in zipped : targets[j] = t
            THEN row[CHOOSE j \in zipped :
                        /\ targets[j] = t
                        /\ \A k \in zipped : targets[k] = t => k <= j]
            ELSE Null]

\* transform::remap
remap(source, targets) == [TransformIter("remap", source) EXCEPT !.targets = targets]

remap_next(self) ==
    IF self.source = <<>> THEN [self |-> self, ret |-> RetNone]
    ELSE LET item == Head(self.source)
         IN  [self |-> [self EXCEPT !.source = Tail(@)],
              ret |-> RetSome(IF item.ok
                              THEN OkItem(item.rid, remap_row(self.targets, item.row))
                              ELSE item)]

\* A comparator that ignores the direction of the keys.
RECURSIVE order_cmp_ascending(_, _, _)
order_cmp_ascending(a, b, dirs) ==
    IF a = <<>> \/ b = <<>> \/ dirs = <<>> THEN 0
    ELSE LET c == FieldCmp(Head(a), Head(b))
         IN  IF c = 0 THEN order_cmp_ascending(Tail(a), Tail(b), Tail(dirs))
             ELSE c

\* The comparator given to sort_by: the first key that differs decides, a
\* descending key reverses that comparison.
RECURSIVE order_cmp(_, _, _)
order_cmp(a, b, dirs) ==
    IF a = <<>> \/ b = <<>> \/ dirs = <<>> THEN 0
    ELSE LET c == FieldCmp(Head(a), Head(b))
         IN  IF c = 0 THEN order_cmp(Tail(a), Tail(b), Tail(dirs))
             ELSE IF Head(dirs) = Descending THEN -c
             ELSE c

\* A stable insertion: x goes after every element that does not sort after it.
RECURSIVE sort_insert(_, _, _)
sort_insert(sorted, x, dirs) ==
    IF sorted = <<>> THEN <<x>>
    ELSE IF order_cmp(x.key, Head(sorted).key, dirs) < 0 THEN <<x>> \o sorted
    ELSE <<Head(sorted)>> \o sort_insert(Tail(sorted), x, dirs)

\* slice::sort_by, a stable sort.
RECURSIVE sort_by(_, _)
sort_by(irows, dirs) ==
    IF irows = <<>> THEN <<>>
    ELSE sort_insert(sort_by(SubSeq(irows, 1, Len(irows) - 1), dirs),
                     irows[Len(irows)], dirs)

\* The two collecting loops of transform::order: the source is drained
\* first (its first error is returned), then the keys are evaluated row by row.
FirstError(s) ==
    IF ErrorFree(s) THEN 0
    ELSE CHOOSE i \in 1..Len(s) : ~s[i].ok /\ \A k \in 1..(i - 1) : s[k].ok

RECURSIVE sort_values(_, _)
sort_values(irows, exprs) ==
    IF irows = <<>> THEN [ok |-> TRUE, vals |-> <<>>, err |-> "none"]
    ELSE LET r == evaluate_all(exprs, Head(irows).row)
         IN  IF ~r.ok THEN [ok |-> FALSE, vals |-> <<>>, err |-> r.err]
             ELSE LET rest == sort_values(Tail(irows), exprs)
                  IN  IF ~rest.ok THEN rest
                      ELSE [ok |-> TRUE, vals |-> <<r.vals>> \o rest.vals, err |-> "none"]

\* transform::order. A key is [expr, dir].
order(source, keys) ==
    LET exprs == [i \in 1..Len(keys) |-> keys[i].expr]
        dirs == [i \in 1..Len(keys) |-> keys[i].dir]
        e == FirstError(source)
        v == sort_values(source, exprs)
    IN  IF e # 0
        THEN [TransformIter("order", <<>>) EXCEPT !.status = "err", !.err = source[e].err]
        ELSE IF ~v.ok
        THEN [TransformIter("order", <<>>) EXCEPT !.status = "err", !.err = v.err]
        ELSE LET keyed == [i \in 1..Len(source) |-> [key |-> v.vals[i], item |-> source[i]]]
                 sorted == sort_by(keyed, dirs)
             IN  TransformIter("order", [i \in 1..Len(sorted) |-> sorted[i].item])

\* vec::IntoIter::next on the sorted rows.
order_next(self) ==
    IF self.source = <<>> THEN [self |-> self, ret |-> RetNone]
    ELSE [self |-> [self EXCEPT !.source = Tail(@)], ret |-> RetSome(Head(self.source))]

\* Iterator::next on a Rows built by one of the transforms.
transform_next(self) ==
    CASE self.op = "filter" -> filter_next(self)
      [] self.op = "limit" -> limit_next(self)
      [] self.op = "offset" -> offset_next(self)
      [] self.op = "project" -> project_next(self)
      [] self.op = "remap" -> remap_next(self)
      [] self.op = "order" -> order_next(self)

\* The items a transform yields to a consumer that drains it.
RECURSIVE transform_items(_)
transform_items(self) ==
    LET r == transform_next(self)
    IN  IF r.ret.tag = "None" THEN <<>>
        ELSE <<r.ret.item>> \o transform_items(r.self)

-----------------------------------------------------------------------------
(* aggregate.rs: the aggregation engine. *)

\* The range of Field::Integer (an i32).
I32_MAX == 2147483647
I32_MIN == -I32_MAX - 1

\* Field::checked_add. What it does with a NULL operand is not fixed by the
\* design: either the sum is NULL or the addition fails (aNullAdd).
checked_add(a, b) ==
    IF a.t = "Integer" /\ b.t = "Integer"
    THEN IF (b.v > 0 /\ a.v > I32_MAX - b.v) \/ (b.v < 0 /\ a.v < I32_MIN - b.v)
         THEN EvalErr("overflow")
         ELSE EvalOk(Integer(a.v + b.v))
    ELSE IF (a.t = "Null" /\ b.t \in {"Null", "Integer"})
            \/ (b.t = "Null" /\ a.t = "Integer")
    THEN IF aNullAdd = "null" THEN EvalOk(Null) ELSE EvalErr("invalid_input")
    ELSE EvalErr("invalid_input")

\* Field::checked_div, on integers the truncating division.
checked_div(a, b) ==
    IF a.t = "Integer" /\ b.t = "Integer"
    THEN IF b.v = 0 THEN EvalErr("division_by_zero")
         ELSE LET q == (IF a.v < 0 THEN -a.v ELSE a.v) \div (IF b.v < 0 THEN -b.v ELSE b.v)
              IN  EvalOk(Integer(IF (a.v < 0) = (b.v < 0) THEN q ELSE -q))
    ELSE IF (a.t = "Null" /\ b.t \in {"Null", "Integer"})
            \/ (b.t = "Null" /\ a.t = "Integer")
    THEN IF aNullAdd = "null" THEN EvalOk(Null) ELSE EvalErr("invalid_input")
    ELSE EvalErr("invalid_input")

\* An aggregate of the plan: its kind and its source expression.
Aggregate(kind, expr) == [kind |-> kind, expr |-> expr]

\* Accumulator::new
accumulator_new(aggregate) ==
    CASE aggregate.kind = "Average" ->
            [kind |-> "Average", count |-> 0, some |-> TRUE, val |-> Integer(0)]
      [] aggregate.kind = "Count" ->
            [kind |-> "Count", count |-> 0, some |-> FALSE, val |-> Null]
      [] aggregate.kind \in {"Max", "Min", "Sum"} ->
            [kind |-> aggregate.kind, count |-> 0, some |-> FALSE, val |-> Null]

AccOk(acc) == [ok |-> TRUE, acc |-> acc, err |-> "none"]
AccErr(acc, e) == [ok |-> FALSE, acc |-> acc, err |-> e]

\* A Count that counts every input.
count_counts_all(value) == TRUE

\* "if !matches!(value, Field::Null)": the inputs a Count counts.
count_counts(value) == value # Null

\* A Max that also replaces the held value by an equal or smaller one.
max_replaces_always(value, max) == TRUE

\* "if value > *max": the inputs that replace the value a Max holds.
max_replaces(value, max) == FieldCmp(value, max) > 0

\* An Average whose count stays as it is.
average_count_kept(count) == count

\* "*count += 1" of an Average.
average_count(count) == count + 1

\* Accumulator::add
accumulator_add(self, value) ==
    CASE self.kind = "Average" ->
            LET r == checked_add(self.val, value)
            IN  IF ~r.ok THEN AccErr(self, r.err)
                ELSE AccOk([self EXCEPT !.val = r.val, !.count = average_count(@)])
      [] self.kind = "Count" ->
            IF count_counts(value) THEN AccOk([self EXCEPT !.count = @ + 1])
            ELSE AccOk(self)
      [] self.kind = "Max" ->
            IF self.some
            THEN IF max_replaces(value, self.val)
                 THEN AccOk([self EXCEPT !.val = value]) ELSE AccOk(self)
            ELSE AccOk([self EXCEPT !.some = TRUE, !.val = value])
      [] self.kind = "Min" ->
            IF self.some
            THEN IF FieldCmp(value, self.val) < 0
                 THEN AccOk([self EXCEPT !.val = value]) ELSE AccOk(self)
            ELSE AccOk([self EXCEPT !.some = TRUE, !.val = value])
      [] self.kind = "Sum" ->
            LET r == checked_add(IF self.some THEN self.val ELSE Integer(0), value)
            IN  IF ~r.ok THEN AccErr(self, r.err)
                ELSE AccOk([self EXCEPT !.some = TRUE, !.val = r.val])

\* Accumulator::value
accumulator_value(self) ==
    CASE self.kind = "Average" ->
            IF self.count = 0 THEN EvalOk(Null)
            ELSE checked_div(self.val, Integer(self.count))
      [] self.kind = "Count" -> EvalOk(Integer(self.count))
      [] self.kind \in {"Max", "Min", "Sum"} ->
            IF self.some THEN EvalOk(self.val) ELSE EvalOk(Null)

\* Aggregator::new. buckets is the BTreeMap, kept as the sequence of its
\* entries in key order.
aggregator_new(group_by, aggregates) ==
    [buckets |-> <<>>,
     empty |-> [i \in 1..Len(aggregates) |-> accumulator_new(aggregates[i])],
     group_by |-> group_by,
     expressions |-> [i \in 1..Len(aggregates) |-> aggregates[i].expr]]

\* Vec<Field>'s order: lexicographic, a proper prefix first.
RECURSIVE VecCmp(_, _)
VecCmp(a, b) ==
    IF a = <<>> THEN (IF b = <<>> THEN 0 ELSE -1)
    ELSE IF b = <<>> THEN 1
    ELSE LET c == FieldCmp(Head(a), Head(b))
         IN  IF c # 0 THEN c ELSE VecCmp(Tail(a), Tail(b))

\* An insertion that ignores the key order: the new bucket goes last.
btree_insert_last(buckets, key, accs) ==
    buckets \o <<[key |-> key, accs |-> accs]>>

\* BTreeMap::insert of a key the map does not hold.
RECURSIVE btree_insert(_, _, _)
btree_insert(buckets, key, accs) ==
    IF buckets = <<>> THEN <<[key |-> key, accs |-> accs]>>
    ELSE IF VecCmp(key, Head(buckets).key) < 0
    THEN <<[key |-> key, accs |-> accs]>> \o buckets
    ELSE <<Head(buckets)>> \o btree_insert(Tail(buckets), key, accs)

BucketIndex(buckets, key) ==
    IF \E i \in 1..Len(buckets) : VecCmp(buckets[i].key, key) = 0
    THEN CHOOSE i \in 1..Len(buckets) : VecCmp(buckets[i].key, key) = 0
    ELSE 0

\* The loop of Aggregator::add over the aggregate expressions.
RECURSIVE accumulate(_, _, _, _)
accumulate(accs, expressions, row, i) ==
    IF i > Len(expressions) THEN [ok |-> TRUE, accs |-> accs, err |-> "none"]
    ELSE LET value == evaluate(expressions[i], row)
         IN  IF ~value.ok THEN [ok |-> FALSE, accs |-> accs, err |-> value.err]
             ELSE LET a == accumulator_add(accs[i], value.val)
                      accs1 == [accs EXCEPT ![i] = a.acc]
                  IN  IF ~a.ok THEN [ok |-> FALSE, accs |-> accs1, err |-> a.err]
                      ELSE accumulate(accs1, expressions, row, i + 1)

\* Aggregator::add. The bucket is created before the aggregate expressions
\* are evaluated, and what was accumulated before a failure stays.
aggregator_add(self, row) ==
    LET bucket == evaluate_all(self.group_by, row)
    IN  IF ~bucket.ok THEN [ok |-> FALSE, self |-> self, err |-> bucket.err]
        ELSE LET with == IF BucketIndex(self.buckets, bucket.vals) = 0
                         THEN btree_insert(self.buckets, bucket.vals, self.empty)
                         ELSE self.buckets
                 k == BucketIndex(with, bucket.vals)
                 a == accumulate(with[k].accs, self.expressions, row, 1)
             IN  [ok |-> a.ok,
                  self |-> [self EXCEPT !.buckets = [with EXCEPT ![k].accs = a.accs]],
                  err |-> a.err]

\* The values of a vector of accumulators, up to the first failure.
RECURSIVE accumulator_values(_)
accumulator_values(accs) ==
    IF accs = <<>> THEN [ok |-> TRUE, vals |-> <<>>, err |-> "none"]
    ELSE LET v == accumulator_value(Head(accs))
         IN  IF ~v.ok THEN [ok |-> FALSE, vals |-> <<>>, err |-> v.err]
             ELSE LET rest == accumulator_values(Tail(accs))
                  IN  IF ~rest.ok THEN rest
                      ELSE [ok |-> TRUE, vals |-> <<v.val>> \o rest.vals, err |-> "none"]

\* An aggregator that never emits the row of empty accumulators.
emit_empty_row_never(self) == FALSE

\* "if self.buckets.is_empty() && self.group_by.is_empty()"
emit_empty_row(self) == self.buckets = <<>> /\ self.group_by = <<>>

RowsOk(items) == [status |-> "ok", err |-> "none", rows |-> items]
RowsErr(e) == [status |-> "err", err |-> e, rows |-> <<>>]

\* Aggregator::into_rows, were each row identified by its position.
into_rows_numbered(self) ==
    IF emit_empty_row(self)
    THEN LET v == accumulator_values(self.empty)
         IN  IF ~v.ok THEN RowsErr(v.err)
             ELSE RowsOk(<<OkItem(1, v.vals)>>)
    ELSE RowsOk([i \in 1..Len(self.buckets) |->
                    LET v == accumulator_values(self.buckets[i].accs)
                    IN  IF ~v.ok THEN ErrItem(v.err)
                        ELSE OkItem(i, self.buckets[i].key \o v.vals)])

\* Aggregator::into_rows
into_rows(self) ==
    IF emit_empty_row(self)
    THEN LET v == accumulator_values(self.empty)
         IN  IF ~v.ok THEN RowsErr(v.err)
             ELSE RowsOk(<<OkItem(INVALID_RID, v.vals)>>)
    ELSE RowsOk([i \in 1..Len(self.buckets) |->
                    LET v == accumulator_values(self.buckets[i].accs)
                    IN  IF ~v.ok THEN ErrItem(v.err)
                        ELSE OkItem(INVALID_RID, self.buckets[i].key \o v.vals)])

\* The "while let" loop of aggregate::aggregate, then into_rows.
RECURSIVE aggregate_loop(_, _)
aggregate_loop(source, self) ==
    IF source = <<>> THEN into_rows(self)
    ELSE IF ~Head(source).ok THEN RowsErr(Head(source).err)
    ELSE LET a == aggregator_add(self, Head(source).row)
         IN  IF ~a.ok THEN RowsErr(a.err)
             ELSE aggregate_loop(Tail(source), a.self)

\* aggregate::aggregate
aggregate(source, group_by, aggregates) ==
    aggregate_loop(source, aggregator_new(group_by, aggregates))

-----------------------------------------------------------------------------
(* types/schema.rs: the schema model. A column is modelled by its data     *)
(* type and its stored offset.                                             *)

DataTypes == {"Bool", "Int", "Float", "Text", "Invalid"}

\* DataType::length_bytes
length_bytes(data_type) ==
    CASE data_type = "Bool" -> 1
      [] data_type \in {"Int", "Float"} -> 4
      [] data_type \in {"Text", "Invalid"} -> 0

\* Column::from(DataType): a column not yet placed in a table.
column_from(dt) == [data_type |-> dt, stored_offset |-> 0]

\* Option::None, for an optional field or setting.
NoField == [t |-> "None", v |-> 0]

\* Field::get_type
get_type(field) ==
    CASE field.t = "Integer" -> "Int"
      [] field.t = "Boolean" -> "Bool"
      [] OTHER -> "Invalid"

\* The match on the default of Column::new and of ColumnBuilder::build.
column_default(default, nullable) ==
    IF default # NoField THEN default
    ELSE IF nullable THEN Null
    ELSE NoField

\* Column::new
column_new(dt, nullable, default) ==
    [data_type |-> dt, nullable |-> nullable,
     default |-> column_default(default, nullable), stored_offset |-> 0]

\* ColumnBuilder::new
column_builder_new ==
    [data_type |-> "None", nullable |-> [some |-> FALSE, val |-> FALSE],
     default |-> NoField, panicked |-> FALSE]

\* ColumnBuilder::data_type
builder_data_type(self, data_type) == [self EXCEPT !.data_type = data_type]

\* ColumnBuilder::nullable
builder_nullable(self, nullable) ==
    [self EXCEPT !.nullable = [some |-> TRUE, val |-> nullable]]

\* ColumnBuilder::default: the two assertions, then the assignment.
builder_default(self, default) ==
    IF self.data_type = "None" \/ get_type(default) # self.data_type
    THEN [self EXCEPT !.panicked = TRUE]
    ELSE [self EXCEPT !.default = default]

\* ColumnBuilder::build, for a builder whose data type is set.
builder_build(self) ==
    LET nullable == self.nullable.some /\ self.nullable.val
    IN  [data_type |-> self.data_type, nullable |-> nullable,
         default |-> column_default(self.default, nullable), stored_offset |-> 0]

\* TableBuilder::column
table_builder_column(columns, dt, nullable, default) ==
    Append(columns, column_new(dt, nullable, default))

\* Table::new
table_new == [fixed_field_size_bytes |-> 0, columns |-> <<>>]

\* Table::variable_length_fields
variable_length_fields(self) ==
    Cardinality({i \in 1..Len(self.columns) : self.columns[i].data_type = "Text"})

\* Table::add_column, were the column pushed with the offset it arrived with.
add_column_unplaced(self, column) ==
    IF column.data_type = "Text"
    THEN [self EXCEPT !.columns = Append(@, column)]
    ELSE [fixed_field_size_bytes |->
              self.fixed_field_size_bytes + length_bytes(column.data_type),
          columns |-> Append(self.columns, column)]

\* Table::add_column
add_column(self, column) ==
    IF column.data_type = "Text"
    THEN [self EXCEPT !.columns =
            Append(@, [column EXCEPT !.stored_offset = variable_length_fields(self)])]
    ELSE [fixed_field_size_bytes |->
              self.fixed_field_size_bytes + length_bytes(column.data_type),
          columns |->
              Append(self.columns,
                     [column EXCEPT !.stored_offset = self.fixed_field_size_bytes])]

\* The loop of Table::merge over the concatenated columns: only the columns
\* that are not Text get a new offset.
RECURSIVE merge_loop(_, _)
merge_loop(schema, i) ==
    IF i > Len(schema.columns) THEN schema
    ELSE IF schema.columns[i].data_type # "Text"
    THEN merge_loop(
            [fixed_field_size_bytes |->
                 schema.fixed_field_size_bytes
                 + length_bytes(schema.columns[i].data_type),
             columns |-> [schema.columns EXCEPT
                             ![i].stored_offset = schema.fixed_field_size_bytes]],
            i + 1)
    ELSE merge_loop(schema, i + 1)

\* Table::merge
merge(d1, d2) ==
    merge_loop([fixed_field_size_bytes |-> 0, columns |-> d1.columns \o d2.columns], 1)

\* Table::with_columns, and the loops of the From conversions and of
\* TableBuilder::build: add_column on each column in order.
RECURSIVE with_columns(_, _)
with_columns(self, columns) ==
    IF columns = <<>> THEN self
    ELSE with_columns(add_column(self, Head(columns)), Tail(columns))

\* impl From<(Table, Table)> for Table
from_tables(schema1, schema2) ==
    with_columns(with_columns(table_new, schema1.columns), schema2.columns)

-----------------------------------------------------------------------------
(* sql/engine/local.rs: the transaction over local storage. The stored     *)
(* rows of the table are a function from record identities to rows; the    *)
(* storage engine below it is a collaborator, whose calls may fail.        *)

\* The elements of a finite set of numbers, ascending.
RECURSIVE Ascend(_)
Ascend(S) ==
    IF S = {} THEN <<>>
    ELSE LET m == CHOOSE x \in S : \A y \in S : x <= y
         IN  <<m>> \o Ascend(S \ {m})

\* simple::Transaction::scan: the stored rows in identity order; the item at
\* position fault (if any) is a storage error.
storage_scan(store, fault) ==
    LET rids == Ascend(DOMAIN store)
    IN  [i \in 1..Len(rids) |->
            IF i = fault THEN ErrItem("storage") ELSE OkItem(rids[i], store[rids[i]])]

\* A scan closure that drops the rows the filter is not a boolean on.
scan_filter_item_lenient(filter_expr, result) ==
    IF ~result.ok THEN RetSome(result)
    ELSE LET r == evaluate(filter_expr, result.row)
         IN  IF ~r.ok THEN RetErr(r.err)
             ELSE IF r.val = Boolean(TRUE) THEN RetSome(result)
             ELSE RetExhausted

\* The closure of Transaction::scan with a filter, on one scanned item.
scan_filter_item(filter_expr, result) ==
    IF ~result.ok THEN RetSome(result)
    ELSE LET r == evaluate(filter_expr, result.row)
         IN  IF ~r.ok THEN RetErr(r.err)
             ELSE IF r.val = Boolean(TRUE) THEN RetSome(result)
             ELSE IF r.val = Boolean(FALSE) \/ r.val = Null THEN RetExhausted
             ELSE RetErr("invalid_input")

RECURSIVE scan_filter(_, _)
scan_filter(items, filter_expr) ==
    IF items = <<>> THEN <<>>
    ELSE LET r == scan_filter_item(filter_expr, Head(items))
         IN  IF r.tag = "Exhausted" THEN scan_filter(Tail(items), filter_expr)
             ELSE <<r.item>> \o scan_filter(Tail(items), filter_expr)

\* Transaction::scan, as the items its Rows yields. The table exists.
txn_scan(txn, filter_expr) ==
    IF filter_expr.op = "None"
    THEN RowsOk(storage_scan(txn.store, txn.scan_fault))
    ELSE RowsOk(scan_filter(storage_scan(txn.store, txn.scan_fault), filter_expr))

\* simple::Transaction::delete of one key: the key is gone afterwards,
\* whether it was stored or not.
storage_delete(store, rid) == [r \in DOMAIN store \ {rid} |-> store[r]]

\* A batched delete that reaches the first identity only.
txn_delete_first(store, ids, fail, n) ==
    IF ids = <<>> THEN [ok |-> TRUE, store |-> store, err |-> "none"]
    ELSE IF n = fail THEN [ok |-> FALSE, store |-> store, err |-> "storage"]
    ELSE [ok |-> TRUE, store |-> storage_delete(store, Head(ids)), err |-> "none"]

\* Transaction::delete: one storage delete per identity, stopping at the
\* first that fails (the fail-th call, if fail is not 0).
RECURSIVE txn_delete(_, _, _, _)
txn_delete(store, ids, fail, n) ==
    IF ids = <<>> THEN [ok |-> TRUE, store |-> store, err |-> "none"]
    ELSE IF n = fail THEN [ok |-> FALSE, store |-> store, err |-> "storage"]
    ELSE txn_delete(storage_delete(store, Head(ids)), Tail(ids), fail, n + 1)

\* The identities the storage can assign.
RidSpace == 1..(MaxRid + MaxSource)

\* simple::Transaction::insert of one tuple: the storage assigns an identity
\* that holds no row, here the lowest or the highest free one.
storage_alloc(store, alloc) ==
    LET free == RidSpace \ DOMAIN store
    IN  IF alloc = "lowest" THEN CHOOSE r \in free : \A q \in free : r <= q
        ELSE CHOOSE r \in free : \A q \in free : q <= r

storage_insert(store, rid, row) ==
    [r \in DOMAIN store \cup {rid} |-> IF r = rid THEN row ELSE store[r]]

\* Transaction::insert: one storage insert per row, in order, collected into
\* the identities; the first insert that fails (the fail-th, if fail is not
\* 0) ends the call with its error, the rows inserted before it stay stored.
RECURSIVE txn_insert(_, _, _, _, _, _)
txn_insert(store, rows, ids, fail, n, alloc) ==
    IF rows = <<>> THEN [ok |-> TRUE, store |-> store, ids |-> ids, err |-> "none"]
    ELSE IF n = fail THEN [ok |-> FALSE, store |-> store, ids |-> <<>>, err |-> "storage"]
    ELSE txn_insert(storage_insert(store, storage_alloc(store, alloc), Head(rows)),
                    Tail(rows), Append(ids, storage_alloc(store, alloc)),
                    fail, n + 1, alloc)

\* simple::Transaction::update of one key.
storage_update(store, rid, row) == [store EXCEPT ![rid] = row]

\* Transaction::update: one storage update per entry of the map, in identity
\* order, stopping at the first that fails: the fail-th call if fail is not
\* 0, or, where the storage rejects them, an identity that holds no row.
RECURSIVE txn_update(_, _, _, _, _, _)
txn_update(store, rows, rids, fail, n, absent) ==
    IF rids = <<>> THEN [ok |-> TRUE, store |-> store, err |-> "none"]
    ELSE IF n = fail THEN [ok |-> FALSE, store |-> store, err |-> "storage"]
    ELSE IF Head(rids) \notin DOMAIN store
    THEN IF absent = "error" THEN [ok |-> FALSE, store |-> store, err |-> "storage"]
         ELSE txn_update(store, rows, Tail(rids), fail, n + 1, absent)
    ELSE txn_update(storage_update(store, Head(rids), rows[Head(rids)]),
                    rows, Tail(rids), fail, n + 1, absent)

\* simple::Transaction::fetch_table: the definition stored under the name,
\* if any, unless the storage fails.
fetch_table(txn, table_name) ==
    IF txn.fetch_fault THEN [ok |-> FALSE, some |-> FALSE, err |-> "storage"]
    ELSE [ok |-> TRUE, some |-> table_name \in DOMAIN txn.tables, err |-> "none"]

\* Catalog::get_table
get_table(txn, table_name) == fetch_table(txn, table_name)

\* simple::Transaction::create_table: the definition is stored under its
\* name. Where the name is taken, the storage either replaces the definition
\* or fails.
storage_create_table(txn, table) ==
    IF txn.store_fault \/ (table.name \in DOMAIN txn.tables /\ txn.clash = "error")
    THEN [ok |-> FALSE, tables |-> txn.tables, err |-> "storage"]
    ELSE [ok |-> TRUE,
          tables |-> [n \in DOMAIN txn.tables \cup {table.name} |->
                         IF n = table.name THEN table ELSE txn.tables[n]],
          err |-> "none"]

\* A create_table that skips the validation.
create_table_unchecked(txn, table) == storage_create_table(txn, table)

\* Catalog::create_table: only a lookup that succeeds and finds the table
\* ends the call; otherwise the storage is asked to create it.
create_table(txn, table) ==
    IF get_table(txn, table.name).ok /\ get_table(txn, table.name).some
    THEN [ok |-> FALSE, tables |-> txn.tables, err |-> "invalid_input"]
    ELSE storage_create_table(txn, table)

\* simple::Transaction::delete_table: whether a table of the name was stored;
\* it is gone afterwards.
storage_delete_table(txn, table_name) ==
    IF txn.store_fault
    THEN [ok |-> FALSE, val |-> FALSE, tables |-> txn.tables, err |-> "storage"]
    ELSE [ok |-> TRUE, val |-> table_name \in DOMAIN txn.tables,
          tables |-> [n \in DOMAIN txn.tables \ {table_name} |-> txn.tables[n]],
          err |-> "none"]

\* A drop_table that leaves the definition in the catalog.
drop_table_keep(txn, table_name, if_exists) ==
    [storage_delete_table(txn, table_name) EXCEPT !.tables = txn.tables]

\* Catalog::drop_table
drop_table(txn, table_name, if_exists) ==
    IF if_exists THEN storage_delete_table(txn, table_name)
    ELSE IF ~storage_delete_table(txn, table_name).ok
    THEN storage_delete_table(txn, table_name)
    ELSE IF ~storage_delete_table(txn, table_name).val
    THEN [ok |-> FALSE, val |-> FALSE, tables |-> txn.tables, err |-> "invalid_input"]
    ELSE [storage_delete_table(txn, table_name) EXCEPT !.val = TRUE]

-----------------------------------------------------------------------------
(* write.rs: the write operators. *)

\* The collecting loop of write::delete: the identities of the source, or
\* the first error of the source.
collect_ids(source) ==
    IF ErrorFree(source)
    THEN [ok |-> TRUE, ids |-> [i \in 1..Len(source) |-> source[i].rid], err |-> "none"]
    ELSE [ok |-> FALSE, ids |-> <<>>, err |-> source[FirstError(source)].err]

\* What write::delete returns once Transaction::delete has been called:
\* "let _ = txn.delete(..); Ok(record_num)".
delete_result(d, record_num) == [ok |-> TRUE, count |-> record_num, err |-> "none"]

\* write::delete after the collecting loop: Transaction::delete is called
\* with the identities, and its result goes to delete_result.
delete_ids(d, ids) ==
    [res |-> delete_result(d, Len(ids)),
     store |-> d.store,
     calls |-> <<[call |-> "delete", ids |-> ids, ok |-> d.ok]>>]

delete_collected(txn, c, fail) ==
    IF ~c.ok
    THEN [res |-> [ok |-> FALSE, count |-> 0, err |-> c.err],
          store |-> txn.store, calls |-> <<>>]
    ELSE delete_ids(txn_delete(txn.store, c.ids, fail, 1), c.ids)

\* write::delete: the result, the store afterwards and the storage calls made.
write_delete(txn, source, fail) == delete_collected(txn, collect_ids(source), fail)

\* A collecting loop that hands the rows over in reverse order.
collect_rows_reversed(source) ==
    IF ErrorFree(source)
    THEN [ok |-> TRUE,
          rows |-> [i \in 1..Len(source) |-> source[Len(source) + 1 - i].row],
          err |-> "none"]
    ELSE [ok |-> FALSE, rows |-> <<>>, err |-> source[FirstError(source)].err]

\* The collecting loop of write::insert: the rows of the source, their
\* identities dropped, or the first error of the source.
collect_rows(source) ==
    IF ErrorFree(source)
    THEN [ok |-> TRUE, rows |-> [i \in 1..Len(source) |-> source[i].row], err |-> "none"]
    ELSE [ok |-> FALSE, rows |-> <<>>, err |-> source[FirstError(source)].err]

\* write::insert after the collecting loop: the result of Transaction::insert
\* is the result of the call.
insert_rows(d, rows) ==
    [res |-> [ok |-> d.ok, ids |-> d.ids, err |-> d.err],
     store |-> d.store,
     calls |-> <<[call |-> "insert", rows |-> rows, ok |-> d.ok]>>]

\* An insert that calls Transaction::insert with what it has collected when
\* the source failed.
insert_collected_anyway(txn, c, fail) ==
    IF ~c.ok
    THEN [res |-> [ok |-> FALSE, ids |-> <<>>, err |-> c.err],
          store |-> txn.store,
          calls |-> <<[call |-> "insert", rows |-> c.rows, ok |-> TRUE]>>]
    ELSE insert_rows(txn_insert(txn.store, c.rows, <<>>, fail, 1, txn.alloc), c.rows)

insert_collected(txn, c, fail) ==
    IF ~c.ok
    THEN [res |-> [ok |-> FALSE, ids |-> <<>>, err |-> c.err],
          store |-> txn.store, calls |-> <<>>]
    ELSE insert_rows(txn_insert(txn.store, c.rows, <<>>, fail, 1, txn.alloc), c.rows)

\* write::insert: the result, the store afterwards and the storage calls made.
write_insert(txn, source, fail) == insert_collected(txn, collect_rows(source), fail)

\* An assignment of write::update: (column index, expression).
Assign(column_index, expression) == [column_index |-> column_index, expression |-> expression]

\* Row::update_field: the field at the index is replaced.
update_field(row, column_index, new_value) ==
    IF column_index \in 1..Len(row)
    THEN [ok |-> TRUE, row |-> [row EXCEPT ![column_index] = new_value], err |-> "none"]
    ELSE [ok |-> FALSE, row |-> row, err |-> "invalid_input"]

\* The inner loop of write::update, were every expression evaluated on the
\* row as the source gave it.
apply_expressions_simultaneous(row, expressions) ==
    LET Assigned(i) == {k \in 1..Len(expressions) : expressions[k].column_index = i}
        Last(i) == CHOOSE k \in Assigned(i) : \A m \in Assigned(i) : m <= k
    IN  IF \A k \in 1..Len(expressions) :
              /\ evaluate(expressions[k].expression, row).ok
              /\ expressions[k].column_index \in 1..Len(row)
        THEN [ok |-> TRUE,
              row |-> [i \in 1..Len(row) |->
                          IF Assigned(i) = {} THEN row[i]
                          ELSE evaluate(expressions[Last(i)].expression, row).val],
              err |-> "none"]
        ELSE [ok |-> FALSE, row |-> row, err |-> "invalid_input"]

\* The inner loop of write::update: the assignments are applied one after
\* the other, each expression evaluated on the row as it is by then.
RECURSIVE apply_expressions(_, _)
apply_expressions(row, expressions) ==
    IF expressions = <<>> THEN [ok |-> TRUE, row |-> row, err |-> "none"]
    ELSE LET new_value == evaluate(Head(expressions).expression, row)
         IN  IF ~new_value.ok THEN [ok |-> FALSE, row |-> row, err |-> new_value.err]
             ELSE IF ~update_field(row, Head(expressions).column_index, new_value.val).ok
             THEN [ok |-> FALSE, row |-> row, err |-> "invalid_input"]
             ELSE apply_expressions(
                      update_field(row, Head(expressions).column_index, new_value.val).row,
                      Tail(expressions))

\* A map insert that keeps the entry a key already has.
updates_insert_first(updates, record_id, row) ==
    [r \in DOMAIN updates \cup {record_id} |->
        IF r \in DOMAIN updates THEN updates[r] ELSE row]

\* BTreeMap::insert: the entry of the key is set, replacing the one it had.
updates_insert(updates, record_id, row) ==
    [r \in DOMAIN updates \cup {record_id} |-> IF r = record_id THEN row ELSE updates[r]]

\* The outer loop of write::update: the map of the mutated rows by identity,
\* or the first error of the source or of an assignment.
RECURSIVE collect_updates(_, _, _)
collect_updates(source, expressions, updates) ==
    IF source = <<>> THEN [ok |-> TRUE, updates |-> updates, err |-> "none"]
    ELSE IF ~Head(source).ok
    THEN [ok |-> FALSE, updates |-> <<>>, err |-> Head(source).err]
    ELSE IF ~apply_expressions(Head(source).row, expressions).ok
    THEN [ok |-> FALSE, updates |-> <<>>,
          err |-> apply_expressions(Head(source).row, expressions).err]
    ELSE collect_updates(Tail(source), expressions,
                         updates_insert(updates, Head(source).rid,
                                        apply_expressions(Head(source).row, expressions).row))

\* write::update after the loop: the count is taken, then Transaction::update
\* is called with the map; its error is the error of the call.
update_rows(d, updates) ==
    [res |-> [ok |-> d.ok, count |-> IF d.ok THEN Cardinality(DOMAIN updates) ELSE 0,
              err |-> d.err],
     store |-> d.store,
     calls |-> <<[call |-> "update", rows |-> updates, ok |-> d.ok]>>]

update_collected(txn, c, fail) ==
    IF ~c.ok
    THEN [res |-> [ok |-> FALSE, count |-> 0, err |-> c.err],
          store |-> txn.store, calls |-> <<>>]
    ELSE update_rows(txn_update(txn.store, c.updates, Ascend(DOMAIN c.updates),
                                fail, 1, txn.absent),
                     c.updates)

\* write::update: the result, the store afterwards and the storage calls made.
write_update(txn, source, expressions, fail) ==
    update_collected(txn, collect_updates(source, expressions, <<>>), fail)

-----------------------------------------------------------------------------
(* execute.rs: the plan executor. *)

\* The columns of the stored table.
TableColumns == <<"a", "b">>
TableWidth == Len(TableColumns)

Scan(filter_expr) == [kind |-> "Scan", filter |-> filter_expr]
Values(rows) == [kind |-> "Values", rows |-> rows]
Nothing == [kind |-> "Nothing"]
Filter(source, predicate) == [kind |-> "Filter", source |-> source, predicate |-> predicate]
Projection(source, expressions) ==
    [kind |-> "Projection", source |-> source, expressions |-> expressions]
Remap(source, targets) == [kind |-> "Remap", source |-> source, targets |-> targets]
Order(source, key) == [kind |-> "Order", source |-> source, key |-> key]
Limit(source, n) == [kind |-> "Limit", source |-> source, limit |-> n]
Offset(source, n) == [kind |-> "Offset", source |-> source, offset |-> n]
NestedLoopJoin(left, right, predicate, outer) ==
    [kind |-> "NestedLoopJoin", left |-> left, right |-> right,
     predicate |-> predicate, outer |-> outer]
HashJoin(left, left_column, right, right_column, outer) ==
    [kind |-> "HashJoin", left |-> left, left_column |-> left_column,
     right |-> right, right_column |-> right_column, outer |-> outer]
AggregateNode(source, group_by, aggregates) ==
    [kind |-> "Aggregate", source |-> source, group_by |-> group_by,
     aggregates |-> aggregates]
IndexLookup(column, values) == [kind |-> "IndexLookup", column |-> column, values |-> values]
KeyLookup(keys) == [kind |-> "KeyLookup", keys |-> keys]

\* Node::columns: the number of columns of the rows a node emits.
RECURSIVE node_columns(_)
node_columns(node) ==
    CASE node.kind \in {"Scan", "IndexLookup", "KeyLookup"} -> TableWidth
      [] node.kind = "Values" -> IF node.rows = <<>> THEN 0 ELSE Len(node.rows[1])
      [] node.kind = "Nothing" -> 0
      [] node.kind \in {"Filter", "Order", "Limit", "Offset"} -> node_columns(node.source)
      [] node.kind = "Projection" -> Len(node.expressions)
      [] node.kind = "Remap" -> remap_size(node.targets)
      [] node.kind \in {"NestedLoopJoin", "HashJoin"} ->
            node_columns(node.left) + node_columns(node.right)
      [] node.kind = "Aggregate" -> Len(node.group_by) + Len(node.aggregates)

\* source::values and source::nothing
source_values(rows) == [i \in 1..Len(rows) |-> OkItem(INVALID_RID, rows[i])]
source_nothing == <<>>

\* The items a nested loop join yields to a consumer that drains it.
RECURSIVE nl_items(_)
nl_items(self) ==
    LET r == try_next(self)
    IN  IF r.ret.tag = "None" THEN <<>> ELSE <<r.ret.item>> \o nl_items(r.self)

\* The items a hash join yields to a consumer that drains it.
RECURSIVE hash_items(_)
hash_items(self) ==
    LET r == hash_next(self)
    IN  IF r.ret.tag = "None" THEN <<>> ELSE <<r.ret.item>> \o hash_items(r.self)

\* todo!(): the call does not return.
Todo == [status |-> "abort", err |-> "not yet implemented", rows |-> <<>>]

\* The arms of execute for IndexLookup, KeyLookup and Offset.
execute_index_lookup(node, txn) == Todo
execute_key_lookup(node, txn) == Todo
execute_offset(node, txn) == Todo

\* execute: the Rows of a node, as the items it yields when drained, or the
\* error the call returns. An arm evaluates its children first.
RECURSIVE execute(_, _)
execute(node, txn) ==
    CASE node.kind = "Aggregate" ->
            LET source == execute(node.source, txn)
            IN  IF source.status # "ok" THEN source
                ELSE aggregate(source.rows, node.group_by, node.aggregates)
      [] node.kind = "Filter" ->
            LET result_rows == execute(node.source, txn)
            IN  IF result_rows.status # "ok" THEN result_rows
                ELSE RowsOk(transform_items(filter(result_rows.rows, node.predicate)))
      [] node.kind = "HashJoin" ->
            LET right_size == node_columns(node.right)
                left == execute(node.left, txn)
                right == execute(node.right, txn)
            IN  IF left.status # "ok" THEN left
                ELSE IF right.status # "ok" THEN right
                ELSE LET h == hash(left.rows, node.left_column, right.rows,
                                   node.right_column, right_size, node.outer)
                     IN  IF h.status = "err" THEN RowsErr(h.err)
                         ELSE RowsOk(hash_items(h))
      [] node.kind = "IndexLookup" -> execute_index_lookup(node, txn)
      [] node.kind = "KeyLookup" -> execute_key_lookup(node, txn)
      [] node.kind = "Limit" ->
            LET result_rows == execute(node.source, txn)
            IN  IF result_rows.status # "ok" THEN result_rows
                ELSE RowsOk(transform_items(limit(result_rows.rows, node.limit)))
      [] node.kind = "NestedLoopJoin" ->
            LET right_size == node_columns(node.right)
                left == execute(node.left, txn)
                right == execute(node.right, txn)
            IN  IF left.status # "ok" THEN left
                ELSE IF right.status # "ok" THEN right
                ELSE RowsOk(nl_items(nested_loop(left.rows, right.rows, right_size,
                                                 node.predicate, node.outer)))
      [] node.kind = "Nothing" -> RowsOk(source_nothing)
      [] node.kind = "Offset" -> execute_offset(node, txn)
      [] node.kind = "Order" ->
            LET source == execute(node.source, txn)
            IN  IF source.status # "ok" THEN source
                ELSE LET o == order(source.rows, node.key)
                     IN  IF o.status = "err" THEN RowsErr(o.err)
                         ELSE RowsOk(transform_items(o))
      [] node.kind = "Projection" ->
            LET source_rows == execute(node.source, txn)
            IN  IF source_rows.status # "ok" THEN source_rows
                ELSE RowsOk(transform_items(project(source_rows.rows, node.expressions)))
      [] node.kind = "Remap" ->
            LET source == execute(node.source, txn)
            IN  IF source.status # "ok" THEN source
                ELSE RowsOk(transform_items(remap(source.rows, node.targets)))
      [] node.kind = "Scan" -> txn_scan(txn, node.filter)
      [] node.kind = "Values" -> RowsOk(source_values(node.rows))

\* Plan::Delete: the source is executed, then handed to write::delete.
delete_statement(w) ==
    [res |-> [kind |-> "Delete", status |-> IF w.res.ok THEN "ok" ELSE "err",
              count |-> w.res.count, err |-> w.res.err],
     store |-> w.store, calls |-> w.calls]

delete_source(result_rows, txn, fail) ==
    IF result_rows.status # "ok"
    THEN [res |-> [kind |-> "Delete", status |-> result_rows.status,
                   count |-> 0, err |-> result_rows.err],
          store |-> txn.store, calls |-> <<>>]
    ELSE delete_statement(write_delete(txn, result_rows.rows, fail))

execute_delete(source, txn, fail) == delete_source(execute(source, txn), txn, fail)

\* Plan::Insert: the source is executed, then handed to write::insert; the
\* count is the number of identities returned.
insert_statement(w) ==
    [res |-> [kind |-> "Insert", status |-> IF w.res.ok THEN "ok" ELSE "err",
              count |-> Len(w.res.ids), record_ids |-> w.res.ids, err |-> w.res.err],
     store |-> w.store, calls |-> w.calls]

insert_source(result_rows, txn, fail) ==
    IF result_rows.status # "ok"
    THEN [res |-> [kind |-> "Insert", status |-> result_rows.status,
                   count |-> 0, record_ids |-> <<>>, err |-> result_rows.err],
          store |-> txn.store, calls |-> <<>>]
    ELSE insert_statement(write_insert(txn, result_rows.rows, fail))

execute_insert(source, txn, fail) == insert_source(execute(source, txn), txn, fail)

\* Plan::Update: the source is executed, then handed to write::update.
update_statement(w) ==
    [res |-> [kind |-> "Update", status |-> IF w.res.ok THEN "ok" ELSE "err",
              count |-> w.res.count, err |-> w.res.err],
     store |-> w.store, calls |-> w.calls]

update_source(result_rows, txn, expressions, fail) ==
    IF result_rows.status # "ok"
    THEN [res |-> [kind |-> "Update", status |-> result_rows.status,
                   count |-> 0, err |-> result_rows.err],
          store |-> txn.store, calls |-> <<>>]
    ELSE update_statement(write_update(txn, result_rows.rows, expressions, fail))

execute_update(source, txn, expressions, fail) ==
    update_source(execute(source, txn), txn, expressions, fail)

\* Plan::CreateTable
execute_create_table(schema, txn) ==
    [res |-> [kind |-> "CreateTable", name |-> schema.name,
              status |-> IF create_table(txn, schema).ok THEN "ok" ELSE "err",
              err |-> create_table(txn, schema).err],
     tables |-> create_table(txn, schema).tables]

\* Plan::DropTable
drop_statement(d, table, if_exists) ==
    IF ~d.ok
    THEN [res |-> [kind |-> "DropTable", name |-> table, existed |-> FALSE,
                   status |-> "err", err |-> d.err],
          tables |-> d.tables]
    ELSE IF ~d.val /\ ~if_exists
    THEN [res |-> [kind |-> "DropTable", name |-> table, existed |-> FALSE,
                   status |-> "err", err |-> "invalid_input"],
          tables |-> d.tables]
    ELSE [res |-> [kind |-> "DropTable", name |-> table, existed |-> d.val,
                   status |-> "ok", err |-> "none"],
          tables |-> d.tables]

execute_drop_table(table, if_exists, txn) ==
    drop_statement(drop_table(txn, table, if_exists), table, if_exists)

\* Node::column_label: the label of the i-th column of a node's rows.
column_label(node, i) == [of |-> node.kind, index |-> i]

\* The labels in reverse index order.
select_labels_reversed(root) ==
    [k \in 1..node_columns(root) |-> column_label(root, node_columns(root) - k)]

\* Plan::Select, its first loop: the labels of the columns 0 .. columns()-1.
select_labels(root) ==
    [k \in 1..node_columns(root) |-> column_label(root, k - 1)]

\* Plan::Select: the labels, then the Rows of the root.
select_result(result_rows, column_labels) ==
    [kind |-> "Select", status |-> result_rows.status, rows |-> result_rows.rows,
     err |-> result_rows.err, columns |-> column_labels]

execute_select(root, txn) == select_result(execute(root, txn), select_labels(root))

-----------------------------------------------------------------------------
(* The join specification: a consumer drains the nested loop join, then    *)
(* calls join::hash on the same arguments and drains its result.          *)

\* The columns of the two join inputs.
LeftColumns == <<"l1", "l2">>
RightColumns == <<"r1", "r2">>
LeftWidth == Len(LeftColumns)
RightWidth == Len(RightColumns)

LeftRows == {<<Integer(1), Null>>, <<Null, Integer(2)>>}
RightRows == {<<Null, Null>>, <<Integer(1), Integer(1)>>, <<Integer(1), Integer(2)>>}

LeftItems == {OkItem(1, r) : r \in LeftRows} \cup {ErrItem("left_err")}
RightItems == {OkItem(2, r) : r \in RightRows} \cup {ErrItem("right_err")}

Predicates(lc, rc) ==
    {NoPredicate, Equal(lc, LeftWidth + rc), Column(LeftWidth + rc)}

JoinArgs ==
    {[left |-> l, right |-> r, left_column |-> lc, right_column |-> rc,
      right_size |-> RightWidth, predicate |-> p, outer |-> o] :
        l \in SeqsUpTo(LeftItems, MaxLeft), r \in SeqsUpTo(RightItems, MaxRight),
        lc \in 1..LeftWidth, rc \in 1..RightWidth,
        p \in UNION {Predicates(c, d) : c \in 1..LeftWidth, d \in 1..RightWidth},
        o \in BOOLEAN}

HashNew == [status |-> "new"]

JoinInit ==
    /\ jin \in {a \in JoinArgs : a.predicate \in Predicates(a.left_column, a.right_column)}
    /\ jPhase = "nested_loop"
    /\ nl = nested_loop(jin.left, jin.right, jin.right_size, jin.predicate, jin.outer)
    /\ nlOut = <<>>
    /\ nlDone = FALSE
    /\ hj = HashNew
    /\ hOut = <<>>
    /\ hDone = FALSE

JoinIdle ==
    /\ jin = <<>> /\ jPhase = "idle" /\ nl = <<>> /\ nlOut = <<>>
    /\ nlDone = FALSE /\ hj = <<>> /\ hOut = <<>> /\ hDone = FALSE

\* The consumer calls next() on the nested loop join.
NLNext ==
    /\ jPhase = "nested_loop"
    /\ LET r == try_next(nl)
       IN  /\ nl' = r.self
           /\ IF r.ret.tag = "None"
              THEN /\ nlDone' = TRUE
                   /\ jPhase' = "hash"
                   /\ nlOut' = nlOut
              ELSE /\ nlOut' = Append(nlOut, r.ret.item)
                   /\ UNCHANGED <<nlDone, jPhase>>
    /\ UNCHANGED <<jin, hj, hOut, hDone>>
    /\ UNCHANGED notJoinVars

\* The executor calls join::hash.
HashCall ==
    /\ jPhase = "hash"
    /\ hj.status = "new"
    /\ hj' = hash(jin.left, jin.left_column, jin.right, jin.right_column,
                  jin.right_size, jin.outer)
    /\ UNCHANGED <<jin, jPhase, nl, nlOut, nlDone, hOut, hDone>>
    /\ UNCHANGED notJoinVars

\* The consumer calls next() on the hash join.
HashNext ==
    /\ jPhase = "hash"
    /\ hj.status = "ok"
    /\ LET r == hash_next(hj)
       IN  /\ hj' = r.self
           /\ IF r.ret.tag = "None"
              THEN /\ hDone' = TRUE
                   /\ jPhase' = "end"
                   /\ hOut' = hOut
              ELSE /\ hOut' = Append(hOut, r.ret.item)
                   /\ UNCHANGED <<hDone, jPhase>>
    /\ UNCHANGED <<jin, nl, nlOut, nlDone>>
    /\ UNCHANGED notJoinVars

JoinNext == NLNext \/ HashCall \/ HashNext

-----------------------------------------------------------------------------
(* The transform specification: the executor builds one transform over a   *)
(* source and a consumer drains it.                                        *)

FieldVals == {Null, Integer(1), Integer(2)}

TRows == FieldVals \X FieldVals

\* A source of scanned rows: the row at position i has identity i; an empty
\* cell stands for an error of the source.
SourceOf(cells) ==
    [i \in 1..Len(cells) |->
        IF cells[i] = <<>> THEN ErrItem("source_err") ELSE OkItem(i, cells[i])]

TSources == {SourceOf(c) : c \in SeqsUpTo(TRows \cup {<<>>}, MaxSource)}

Key(expr, dir) == [expr |-> expr, dir |-> dir]

TransformOps ==
    {[op |-> "filter", n |-> 0, exprs |-> <<e>>, targets |-> <<>>, keys |-> <<>>] :
        e \in {Equal(1, 2), Column(1)}}
    \cup {[op |-> o, n |-> n, exprs |-> <<>>, targets |-> <<>>, keys |-> <<>>] :
        o \in {"limit", "offset"}, n \in 0..(MaxSource + 1)}
    \cup {[op |-> "project", n |-> 0, exprs |-> e, targets |-> <<>>, keys |-> <<>>] :
        e \in {<<Column(2), Column(1)>>, <<Equal(1, 2)>>, <<Column(3)>>}}
    \cup {[op |-> "remap", n |-> 0, exprs |-> <<>>, targets |-> t, keys |-> <<>>] :
        t \in {<<0, 0>>, <<2, 1>>, <<3, 0>>, <<1, 1>>, <<0, 2>>}}
    \cup {[op |-> "order", n |-> 0, exprs |-> <<>>, targets |-> <<>>, keys |-> k] :
        k \in {<<Key(Column(1), Ascending), Key(Column(2), Descending)>>,
               <<Key(Column(2), Ascending)>>, <<Key(Column(1), Descending)>>,
               <<Key(Column(3), Ascending)>>}}

TransformNew == [status |-> "new"]

TransformInit ==
    /\ tin \in {[source |-> src, args |-> a] : src \in TSources, a \in TransformOps}
    /\ tr = TransformNew
    /\ tOut = <<>>
    /\ tDone = FALSE

TransformIdle ==
    /\ tin = <<>> /\ tr = <<>> /\ tOut = <<>> /\ tDone = FALSE

\* The transform function named by the arguments, applied to the source.
transform_call(source, a) ==
    CASE a.op = "filter" -> filter(source, a.exprs[1])
      [] a.op = "limit" -> limit(source, a.n)
      [] a.op = "offset" -> offset(source, a.n)
      [] a.op = "project" -> project(source, a.exprs)
      [] a.op = "remap" -> remap(source, a.targets)
      [] a.op = "order" -> order(source, a.keys)

\* The executor calls the transform function.
TransformCall ==
    /\ tr = TransformNew
    /\ tr' = transform_call(tin.source, tin.args)
    /\ UNCHANGED <<tin, tOut, tDone>>
    /\ UNCHANGED notTransformVars

\* The consumer calls next() on the transform's Rows.
TransformNext ==
    /\ tr # TransformNew
    /\ tr.status = "ok"
    /\ ~tDone
    /\ LET r == transform_next(tr)
       IN  /\ tr' = r.self
           /\ IF r.ret.tag = "None"
              THEN tDone' = TRUE /\ tOut' = tOut
              ELSE tOut' = Append(tOut, r.ret.item) /\ tDone' = tDone
    /\ UNCHANGED tin
    /\ UNCHANGED notTransformVars

TransformStep == TransformCall \/ TransformNext

-----------------------------------------------------------------------------
(* The aggregation specification: aggregate takes the source row by row,   *)
(* then turns the buckets into rows.                                       *)

GroupBys == {<<>>, <<Column(1)>>, <<Column(1), Column(2)>>}

AggregateLists ==
    {<<Aggregate("Count", Column(2))>>,
     <<Aggregate("Sum", Column(2)), Aggregate("Max", Column(2))>>,
     <<Aggregate("Min", Column(2)), Aggregate("Average", Column(2)),
       Aggregate("Count", Column(1))>>,
     <<Aggregate("Average", Column(2)), Aggregate("Sum", Column(1))>>,
     <<Aggregate("Max", Column(1)), Aggregate("Count", Column(2)),
       Aggregate("Min", Column(2))>>,
     <<>>}

AggNew == [status |-> "new", err |-> "none", rows |-> <<>>]

\* The values of the aggregated rows: NULL, a small integer and the largest
\* integer but one.
AggVals == {Null, Integer(1), Integer(I32_MAX - 1)}

AggSources ==
    {SourceOf(c) : c \in SeqsUpTo((AggVals \X AggVals) \cup {<<>>}, MaxSource)}

AggInit ==
    /\ ain \in {[source |-> src, group_by |-> g, aggregates |-> a] :
                    src \in AggSources, g \in GroupBys, a \in AggregateLists}
    /\ aNullAdd \in {"null", "error"}
    /\ aSource = ain.source
    /\ aggregator = aggregator_new(ain.group_by, ain.aggregates)
    /\ aRes = AggNew

AggIdle ==
    /\ ain = <<>> /\ aNullAdd = "null" /\ aSource = <<>> /\ aggregator = <<>>
    /\ aRes = <<>>

\* One turn of the loop of aggregate: the next source item is added.
AggAdd ==
    /\ aRes = AggNew
    /\ aSource # <<>>
    /\ aSource' = Tail(aSource)
    /\ IF ~Head(aSource).ok
       THEN aRes' = RowsErr(Head(aSource).err) /\ aggregator' = aggregator
       ELSE LET a == aggregator_add(aggregator, Head(aSource).row)
            IN  /\ aggregator' = a.self
                /\ aRes' = IF a.ok THEN aRes ELSE RowsErr(a.err)
    /\ UNCHANGED <<ain, aNullAdd>>
    /\ UNCHANGED notAggVars

\* The source is exhausted: aggregate returns aggregator.into_rows().
AggIntoRows ==
    /\ aRes = AggNew
    /\ aSource = <<>>
    /\ aRes' = into_rows(aggregator)
    /\ UNCHANGED <<ain, aNullAdd, aSource, aggregator>>
    /\ UNCHANGED notAggVars

AggNext == AggAdd \/ AggIntoRows

-----------------------------------------------------------------------------
(* The schema specification: two schemas are built column by column and    *)
(* merged, by Table::merge and by the From<(Table, Table)> conversion.     *)

NotMerged == [done |-> FALSE]

SchemaInit ==
    /\ table1 = table_new
    /\ table2 = table_new
    /\ merged = NotMerged

SchemaIdle ==
    /\ table1 = <<>> /\ table2 = <<>> /\ merged = <<>>

\* table1.add_column(&Column::from(dt))
AddColumn1 ==
    /\ Len(table1.columns) < MaxColumns
    /\ \E dt \in DataTypes : table1' = add_column(table1, column_from(dt))
    /\ UNCHANGED <<table2, merged>>
    /\ UNCHANGED notSchemaVars

\* table2.add_column(&Column::from(dt))
AddColumn2 ==
    /\ Len(table2.columns) < MaxColumns
    /\ \E dt \in DataTypes : table2' = add_column(table2, column_from(dt))
    /\ UNCHANGED <<table1, merged>>
    /\ UNCHANGED notSchemaVars

\* Table::merge and Table::from on the same schemas.
Merge ==
    /\ merged' = [done |-> TRUE, d1 |-> table1, d2 |-> table2,
                  merge |-> merge(table1, table2), from |-> from_tables(table1, table2)]
    /\ UNCHANGED <<table1, table2>>
    /\ UNCHANGED notSchemaVars

SchemaNext == AddColumn1 \/ AddColumn2 \/ Merge

-----------------------------------------------------------------------------
(* The engine specification: statements are executed one after the other   *)
(* against the stored table, until one aborts the process.                 *)

StoreRows == {<<Integer(1), Integer(1)>>, <<Integer(2), Null>>}

Stores == UNION {[S -> StoreRows] : S \in SUBSET (1..MaxRid)}

ValuesRows == <<<<Integer(1), Null>>, <<Integer(2), Integer(2)>>>>

LeafNodes ==
    {Scan(NoPredicate), Scan(Equal(1, 2)), Values(ValuesRows), Nothing}

UnaryNodes(src) ==
    {Filter(src, Equal(1, 2)), Filter(src, Column(1)),
     Projection(src, <<Column(2)>>), Remap(src, <<2, 1>>),
     Order(src, <<Key(Column(1), Descending)>>),
     Limit(src, 1), Offset(src, 0), Offset(src, 1),
     AggregateNode(src, <<Column(1)>>, <<Aggregate("Count", Column(2))>>),
     AggregateNode(src, <<>>, <<Aggregate("Count", Column(2))>>),
     IndexLookup(1, <<Integer(2), Integer(1)>>), KeyLookup(<<2, 1>>)}

BinaryNodes(l, r) ==
    {NestedLoopJoin(l, r, p, o) :
        p \in {NoPredicate, Equal(1, TableWidth + 1)}, o \in BOOLEAN}
    \cup {HashJoin(l, 1, r, 1, o) : o \in BOOLEAN}

PlanNodes ==
    LET unary == UNION {UnaryNodes(l) : l \in LeafNodes}
    IN  LeafNodes \cup unary
        \cup {Limit(u, 1) : u \in unary}
        \cup UNION {BinaryNodes(l, r) :
                        l \in LeafNodes,
                        r \in {Scan(NoPredicate), Scan(Equal(1, 2)), Values(ValuesRows)}}

NoStatement == [kind |-> "None", status |-> "ok"]

EngineInit ==
    /\ storage \in Stores
    /\ xplan = NoStatement
    /\ xres = NoStatement
    /\ xcalls = <<>>

EngineIdle ==
    /\ storage = <<>> /\ xplan = <<>> /\ xres = <<>> /\ xcalls = <<>>

\* execute_plan(Plan::Delete { table, source }), the source a scan of the
\* table. The storage may fail during the scan or during the delete.
DeleteStmt ==
    /\ xres.status # "abort"
    /\ \E filter_expr \in {NoPredicate, Equal(1, 2), Column(1)},
          scan_fault \in 0..MaxRid, fail \in 0..MaxRid :
          \E r \in {execute_delete(Scan(filter_expr),
                                   [store |-> storage, scan_fault |-> scan_fault],
                                   fail)} :
              /\ xplan' = [kind |-> "Delete", source |-> Scan(filter_expr),
                            scan_fault |-> scan_fault, fail |-> fail]
              /\ xres' = r.res
              /\ storage' = r.store
              /\ xcalls' = r.calls
    /\ UNCHANGED notEngineVars

\* execute_plan(Plan::Select(root)), the Rows drained by the caller.
SelectStmt ==
    /\ xres.status # "abort"
    /\ \E root \in PlanNodes, scan_fault \in 0..1 :
          /\ xplan' = [kind |-> "Select", root |-> root, scan_fault |-> scan_fault]
          /\ xres' = execute_select(root, [store |-> storage, scan_fault |-> scan_fault])
    /\ xcalls' = <<>>
    /\ UNCHANGED storage
    /\ UNCHANGED notEngineVars

EngineNext == DeleteStmt \/ SelectStmt

-----------------------------------------------------------------------------
(* The write specification: a write operator is called with the rows of a  *)
(* source, against a stored table.                                         *)

WriteItems ==
    {OkItem(r, row) : r \in 1..MaxRid, row \in StoreRows} \cup {ErrItem("source_err")}

WriteSources == SeqsUpTo(WriteItems, MaxSource)

Assignments ==
    {<<Assign(1, Column(2))>>,
     <<Assign(1, Column(2)), Assign(2, Column(1))>>,
     <<Assign(2, Column(3))>>}

WriteArgs ==
    {[op |-> "insert", store |-> st, source |-> src, expressions |-> <<>>,
      fail |-> f, alloc |-> a, absent |-> "ignore"] :
        st \in Stores, src \in WriteSources, f \in 0..1, a \in {"lowest", "highest"}}
    \cup {[op |-> "delete", store |-> st, source |-> src, expressions |-> <<>>,
           fail |-> f, alloc |-> "lowest", absent |-> "ignore"] :
        st \in Stores, src \in WriteSources, f \in 0..1}
    \cup {[op |-> "update", store |-> st, source |-> src, expressions |-> e,
           fail |-> f, alloc |-> "lowest", absent |-> ab] :
        st \in Stores, src \in WriteSources, e \in Assignments, f \in 0..1,
        ab \in {"ignore", "error"}}

WriteNew == [status |-> "new"]

WriteInit ==
    /\ win \in WriteArgs
    /\ wout = WriteNew

WriteIdle ==
    /\ win = <<>> /\ wout = <<>>

\* The transaction the write operators work in.
WriteTxn ==
    [store |-> win.store, scan_fault |-> 0, alloc |-> win.alloc, absent |-> win.absent]

\* execute_plan(Plan::Insert), once the source is executed.
WriteInsert ==
    /\ wout = WriteNew
    /\ win.op = "insert"
    /\ wout' = insert_source(RowsOk(win.source), WriteTxn, win.fail)
    /\ UNCHANGED win
    /\ UNCHANGED notWriteVars

\* execute_plan(Plan::Update), once the source is executed.
WriteUpdate ==
    /\ wout = WriteNew
    /\ win.op = "update"
    /\ wout' = update_source(RowsOk(win.source), WriteTxn, win.expressions, win.fail)
    /\ UNCHANGED win
    /\ UNCHANGED notWriteVars

\* execute_plan(Plan::Delete), once the source is executed.
WriteDelete ==
    /\ wout = WriteNew
    /\ win.op = "delete"
    /\ wout' = delete_source(RowsOk(win.source), WriteTxn, win.fail)
    /\ UNCHANGED win
    /\ UNCHANGED notWriteVars

WriteNext == WriteInsert \/ WriteUpdate \/ WriteDelete

-----------------------------------------------------------------------------
(* The catalog specification: CreateTable and DropTable statements are     *)
(* executed one after the other against the catalog.                       *)

TableNames == {"t1", "t2"}

Schemas(table_name) ==
    {[name |-> table_name, table |-> with_columns(table_new, <<column_from(dt)>>)] :
        dt \in {"Int", "Text"}}

Catalogs ==
    UNION {{f \in [S -> UNION {Schemas(n) : n \in TableNames}] :
                \A n \in S : f[n].name = n} : S \in SUBSET TableNames}

CatalogInit ==
    /\ tables \in Catalogs
    /\ clast = [n \in TableNames |-> "none"]
    /\ cres = NoStatement

CatalogIdle ==
    /\ tables = <<>> /\ clast = <<>> /\ cres = <<>>

\* The transactions a catalog statement may run in: the storage may fail on
\* the lookup or on the change.
CatalogTxns ==
    {[tables |-> tables, fetch_fault |-> ff, store_fault |-> sf, clash |-> c] :
        ff \in BOOLEAN, sf \in BOOLEAN, c \in {"overwrite", "error"}}

Succeeded(res, kind) ==
    IF res.status = "ok" THEN [clast EXCEPT ![res.name] = kind] ELSE clast

\* execute_plan(Plan::CreateTable { schema })
CreateTableStmt ==
    /\ \E n \in TableNames : \E schema \in Schemas(n), txn \in CatalogTxns :
          \E r \in {execute_create_table(schema, txn)} :
              /\ tables' = r.tables
              /\ cres' = [kind |-> "CreateTable", schema |-> schema, txn |-> txn,
                          res |-> r.res]
              /\ clast' = Succeeded(r.res, "create")
    /\ UNCHANGED notCatalogVars

\* execute_plan(Plan::DropTable { table, if_exists })
DropTableStmt ==
    /\ \E n \in TableNames, if_exists \in BOOLEAN, txn \in CatalogTxns :
          \E r \in {execute_drop_table(n, if_exists, txn)} :
              /\ tables' = r.tables
              /\ cres' = [kind |-> "DropTable", table |-> n, if_exists |-> if_exists,
                          txn |-> txn, res |-> r.res]
              /\ clast' = Succeeded(r.res, "drop")
    /\ UNCHANGED notCatalogVars

CatalogNext == CreateTableStmt \/ DropTableStmt

-----------------------------------------------------------------------------
(* The Select specification: execute_plan(Plan::Select(root)) step by      *)
(* step, the labels first, then the execution of the root.                 *)

SelectInit ==
    sel \in {[pc |-> "start", root |-> root,
              txn |-> [store |-> st, scan_fault |-> f],
              columns |-> <<>>, result |-> NoStatement] :
                 root \in PlanNodes, st \in Stores, f \in 0..1}

SelectIdle == sel = <<>>

\* The loop over 0..column_count: nothing is executed yet.
SelectLabels ==
    /\ sel.pc = "start"
    /\ sel' = [sel EXCEPT !.pc = "labels", !.columns = select_labels(sel.root)]
    /\ UNCHANGED notSelectVars

\* execute(root, txn), and the result with the labels computed before.
SelectExecute ==
    /\ sel.pc = "labels"
    /\ sel' = [sel EXCEPT !.pc = "done",
                          !.result = select_result(execute(sel.root, sel.txn), sel.columns)]
    /\ UNCHANGED notSelectVars

SelectNext == SelectLabels \/ SelectExecute

-----------------------------------------------------------------------------
(* The column specification: columns are constructed by Column::new, by a  *)
(* ColumnBuilder and by TableBuilder::column; a failed assertion ends the  *)
(* process.                                                                *)

ColumnTypes == {"Bool", "Int", "Text"}

Defaults == {Null, Integer(1), Boolean(TRUE)}

NoColumn == [by |-> "none"]

ColumnInit ==
    /\ builder = column_builder_new
    /\ built = NoColumn
    /\ tbuilder = <<>>

ColumnIdle ==
    /\ builder = <<>> /\ built = <<>> /\ tbuilder = <<>>

\* Column::new(name, dt, nullable, default, None)
ColumnNew ==
    /\ ~builder.panicked
    /\ \E dt \in ColumnTypes, nullable \in BOOLEAN, default \in Defaults \cup {NoField} :
          built' = [by |-> "Column::new", column |-> column_new(dt, nullable, default)]
    /\ UNCHANGED <<builder, tbuilder>>
    /\ UNCHANGED notColumnVars

\* builder.data_type(dt)
BuilderDataType ==
    /\ ~builder.panicked
    /\ \E dt \in ColumnTypes : builder' = builder_data_type(builder, dt)
    /\ UNCHANGED <<built, tbuilder>>
    /\ UNCHANGED notColumnVars

\* builder.nullable(b)
BuilderNullable ==
    /\ ~builder.panicked
    /\ \E nullable \in BOOLEAN : builder' = builder_nullable(builder, nullable)
    /\ UNCHANGED <<built, tbuilder>>
    /\ UNCHANGED notColumnVars

\* builder.default(field)
BuilderDefault ==
    /\ ~builder.panicked
    /\ \E default \in Defaults : builder' = builder_default(builder, default)
    /\ UNCHANGED <<built, tbuilder>>
    /\ UNCHANGED notColumnVars

\* builder.build(): without a data type the expect panics; the builder is
\* consumed, and Column::builder() gives the next one.
BuilderBuild ==
    /\ ~builder.panicked
    /\ IF builder.data_type = "None"
       THEN builder' = [builder EXCEPT !.panicked = TRUE] /\ built' = built
       ELSE /\ built' = [by |-> "ColumnBuilder::build", column |-> builder_build(builder)]
            /\ builder' = column_builder_new
    /\ UNCHANGED tbuilder
    /\ UNCHANGED notColumnVars

\* table_builder.column(name, dt, nullable, default, None)
TableBuilderColumn ==
    /\ ~builder.panicked
    /\ Len(tbuilder) < MaxColumns
    /\ \E dt \in {"Int"}, nullable \in BOOLEAN, default \in {NoField, Boolean(TRUE)} :
          tbuilder' = table_builder_column(tbuilder, dt, nullable, default)
    /\ UNCHANGED <<builder, built>>
    /\ UNCHANGED notColumnVars

ColumnNext ==
    \/ ColumnNew \/ BuilderDataType \/ BuilderNullable \/ BuilderDefault
    \/ BuilderBuild \/ TableBuilderColumn

-----------------------------------------------------------------------------
(* The specifications. *)

RestIdle == WriteIdle /\ CatalogIdle /\ SelectIdle /\ ColumnIdle

CoreIdle == JoinIdle /\ TransformIdle /\ AggIdle /\ SchemaIdle /\ EngineIdle

InitJoin == JoinInit /\ TransformIdle /\ AggIdle /\ SchemaIdle /\ EngineIdle /\ RestIdle

SpecJoin == InitJoin /\ [][JoinNext]_vars

InitTransform == TransformInit /\ JoinIdle /\ AggIdle /\ SchemaIdle /\ EngineIdle /\ RestIdle

SpecTransform == InitTransform /\ [][TransformStep]_vars

InitAgg == AggInit /\ JoinIdle /\ TransformIdle /\ SchemaIdle /\ EngineIdle /\ RestIdle

SpecAgg == InitAgg /\ [][AggNext]_vars

InitSchema == SchemaInit /\ JoinIdle /\ TransformIdle /\ AggIdle /\ EngineIdle /\ RestIdle

SpecSchema == InitSchema /\ [][SchemaNext]_vars

InitEngine == EngineInit /\ JoinIdle /\ TransformIdle /\ AggIdle /\ SchemaIdle /\ RestIdle

SpecEngine == InitEngine /\ [][EngineNext]_vars

InitWrite == WriteInit /\ CoreIdle /\ CatalogIdle /\ SelectIdle /\ ColumnIdle

SpecWrite == InitWrite /\ [][WriteNext]_vars

InitCatalog == CatalogInit /\ CoreIdle /\ WriteIdle /\ SelectIdle /\ ColumnIdle

SpecCatalog == InitCatalog /\ [][CatalogNext]_vars

InitSelect == SelectInit /\ CoreIdle /\ WriteIdle /\ CatalogIdle /\ ColumnIdle

SpecSelect == InitSelect /\ [][SelectNext]_vars

InitColumn == ColumnInit /\ CoreIdle /\ WriteIdle /\ CatalogIdle /\ SelectIdle

SpecColumn == InitColumn /\ [][ColumnNext]_vars

\* The scans: a Select whose root is a Scan with a filter pushed down, over
\* tables of any rows.
ScanFilters == {Equal(1, 2), Column(1), Column(2)}

ScanStores == UNION {[S -> TRows] : S \in SUBSET (1..MaxRid)}

ScanInit ==
    sel \in {[pc |-> "start", root |-> Scan(p),
              txn |-> [store |-> st, scan_fault |-> f],
              columns |-> <<>>, result |-> NoStatement] :
                 p \in ScanFilters, st \in ScanStores, f \in 0..MaxRid}

InitScan == ScanInit /\ CoreIdle /\ WriteIdle /\ CatalogIdle /\ ColumnIdle

SpecScan == InitScan /\ [][SelectNext]_vars

\* The row streams: a join is drained, or a transform is.
InitStreams == InitJoin \/ InitTransform

\* The steps of the transform, in the behaviours that drain one.
StreamsTransformCall == jPhase = "idle" /\ TransformCall

StreamsTransformNext == jPhase = "idle" /\ TransformNext

StreamsNext == JoinNext \/ StreamsTransformCall \/ StreamsTransformNext

SpecStreams == InitStreams /\ [][StreamsNext]_vars

-----------------------------------------------------------------------------
(* Properties of the join operators. *)

EquiPredicate == Equal(jin.left_column, LeftWidth + jin.right_column)

\* C1: for error-free inputs, the hash join on (left_column, right_column)
\* and the nested loop join with the predicate left[lc] = right[rc] emit the
\* same multiset of rows, for either value of outer and with NULL keys.
C1_JoinStrategiesAgree ==
    (/\ nlDone /\ hDone
     /\ ErrorFree(jin.left) /\ ErrorFree(jin.right)
     /\ jin.predicate = EquiPredicate)
    => SameMultiset(nlOut, hOut)

C1_Witness ==
    /\ nlDone /\ hDone
    /\ ErrorFree(jin.left) /\ ErrorFree(jin.right)
    /\ jin.predicate = EquiPredicate
    /\ \E i \in 1..Len(jin.left) : is_undefined(jin.left[i].row[jin.left_column])
    /\ \E i \in 1..Len(jin.right) : is_undefined(jin.right[i].row[jin.right_column])
    /\ \E i \in 1..Len(jin.left), k \in 1..Len(jin.right) :
          /\ ~is_undefined(jin.left[i].row[jin.left_column])
          /\ jin.left[i].row[jin.left_column] = jin.right[k].row[jin.right_column]
    /\ Len(hOut) >= 1

\* The join condition of the statement, stated on the rows themselves.
KeysEqual(l, r) ==
    /\ ~is_undefined(l[jin.left_column])
    /\ l[jin.left_column] = r[jin.right_column]

NLJoins(l, r) == jin.predicate = NoPredicate \/ KeysEqual(l, r)

Unmatched(Joins(_, _)) ==
    {i \in 1..Len(jin.left) :
        \A k \in 1..Len(jin.right) : ~Joins(jin.left[i].row, jin.right[k].row)}

MatchedPairs(Joins(_, _)) ==
    {p \in (1..Len(jin.left)) \X (1..Len(jin.right)) :
        Joins(jin.left[p[1]].row, jin.right[p[2]].row)}

Padded(l) == OkItem(INVALID_RID, l \o Nulls(jin.right_size))

\* The output holds one row per matched pair and, in an outer join only, one
\* padded row per unmatched left row; the rows equal to a padded row are those
\* of the unmatched left rows plus the matched pairs whose right row is all NULL.
OuterRowsOf(out, Joins(_, _)) ==
    /\ Len(out) = Cardinality(MatchedPairs(Joins))
                  + (IF jin.outer THEN Cardinality(Unmatched(Joins)) ELSE 0)
    /\ \A l \in LeftRows :
          CountOf(Padded(l), out) =
              (IF jin.outer
               THEN Cardinality({i \in Unmatched(Joins) : jin.left[i].row = l})
               ELSE 0)
              + Cardinality({p \in MatchedPairs(Joins) :
                                /\ jin.left[p[1]].row = l
                                /\ jin.right[p[2]].row = Nulls(jin.right_size)})

\* C2: with outer = true both joins emit exactly one NULL-padded row per left
\* row without a match and none for a left row with a match; with
\* outer = false an unmatched left row yields no row.
C2_OuterPadding ==
    (/\ ErrorFree(jin.left) /\ ErrorFree(jin.right)
     /\ jin.predicate \in {NoPredicate, EquiPredicate})
    => /\ nlDone => OuterRowsOf(nlOut, NLJoins)
       /\ hDone => OuterRowsOf(hOut, KeysEqual)

C2_Witness ==
    /\ nlDone /\ hDone /\ jin.outer
    /\ ErrorFree(jin.left) /\ ErrorFree(jin.right)
    /\ jin.predicate = EquiPredicate
    /\ Unmatched(KeysEqual) # {}
    /\ \E p \in MatchedPairs(KeysEqual) : TRUE
    /\ \E i \in Unmatched(KeysEqual) :
          /\ Padded(jin.left[i].row) \in Range(nlOut)
          /\ Padded(jin.left[i].row) \in Range(hOut)

\* Whether a left and a right row are joined: by the hash join on equal keys
\* that are not NULL, by the nested loop join when there is no predicate or
\* it is true on the combined row.
Joined(how, l, r) ==
    IF how = "hash" THEN KeysEqual(l, r)
    ELSE \/ jin.predicate = NoPredicate
         \/ /\ evaluate(jin.predicate, l \o r).ok
            /\ evaluate(jin.predicate, l \o r).val = Boolean(TRUE)

\* The rows a left row gives with the first n right rows, in right order.
RECURSIVE MatchesOf(_, _, _)
MatchesOf(how, l, n) ==
    IF n = 0 THEN <<>>
    ELSE MatchesOf(how, l, n - 1)
         \o (IF Joined(how, l, jin.right[n].row)
             THEN <<OkItem(INVALID_RID, l \o jin.right[n].row)>> ELSE <<>>)

\* The rows of the first k left rows, in left order; an outer join pads a
\* left row that gives none.
RECURSIVE JoinedUpTo(_, _)
JoinedUpTo(how, k) ==
    IF k = 0 THEN <<>>
    ELSE LET l == jin.left[k].row
             m == MatchesOf(how, l, Len(jin.right))
         IN  JoinedUpTo(how, k - 1)
             \o (IF m = <<>> /\ jin.outer THEN <<Padded(l)>> ELSE m)

\* C29: for error-free inputs the hash join yields, for each left row in
\* left order, left ++ r for every right row r whose key is not NULL and
\* equals the left row's key, in the order of the right stream; a left row
\* with a NULL key matches none and a right row with a NULL key is in no row.
C29_HashOutputOrder ==
    (hDone /\ ErrorFree(jin.left) /\ ErrorFree(jin.right))
    => hOut = JoinedUpTo("hash", Len(jin.left))

\* Two different right rows of one key, met by a left row, after a right
\* row and before a left row with NULL keys.
C29_Witness ==
    /\ hDone /\ ErrorFree(jin.left) /\ ErrorFree(jin.right) /\ ~jin.outer
    /\ Len(jin.left) = 2 /\ Len(jin.right) = 2
    /\ jin.right[1].row # jin.right[2].row
    /\ KeysEqual(jin.left[1].row, jin.right[1].row)
    /\ KeysEqual(jin.left[1].row, jin.right[2].row)
    /\ is_undefined(jin.left[2].row[jin.left_column])
    /\ hOut = <<OkItem(INVALID_RID, jin.left[1].row \o jin.right[1].row),
                OkItem(INVALID_RID, jin.left[1].row \o jin.right[2].row)>>

\* C30: for error-free inputs the nested loop join yields, for each left
\* row in left order, left ++ r for every row r of the whole right stream
\* that passes the predicate (every r without a predicate), in right order:
\* the right stream starts over for each left row.
C30_NestedLoopOutputOrder ==
    (/\ nlDone /\ ErrorFree(jin.left) /\ ErrorFree(jin.right)
     /\ jin.predicate \in {NoPredicate, EquiPredicate})
    => nlOut = JoinedUpTo("nested_loop", Len(jin.left))

\* Two left rows that both meet the two right rows.
C30_Witness ==
    /\ nlDone /\ ErrorFree(jin.left) /\ ErrorFree(jin.right)
    /\ jin.predicate = NoPredicate
    /\ Len(jin.left) = 2 /\ Len(jin.right) = 2
    /\ jin.left[1].row # jin.left[2].row /\ jin.right[1].row # jin.right[2].row
    /\ nlOut = <<OkItem(INVALID_RID, jin.left[1].row \o jin.right[1].row),
                 OkItem(INVALID_RID, jin.left[1].row \o jin.right[2].row),
                 OkItem(INVALID_RID, jin.left[2].row \o jin.right[1].row),
                 OkItem(INVALID_RID, jin.left[2].row \o jin.right[2].row)>>

\* A left item the hash join has nothing to yield for.
SuppliesNothing(item) ==
    /\ item.ok
    /\ ~jin.outer
    /\ MatchesOf("hash", item.row, Len(jin.right)) = <<>>

\* The call of join::hash that returns the iterator.
HashReturns == jPhase = "hash" /\ hj.status = "new" /\ hj'.status = "ok"

\* A request of the consumer to the hash join.
HashRequested == jPhase = "hash" /\ hj.status = "ok"

\* C31: join::hash has taken the whole right stream and nothing of the left
\* stream when it returns; afterwards a left item is taken only on a request
\* that the left items taken before cannot answer.
C31_HashDrainsRightLazyLeft ==
    [][/\ HashReturns =>
             /\ hj'.right_rest = <<>>
             /\ hj'.left = jin.left
             /\ hj'.inner = <<>>
       /\ HashRequested =>
             LET pulled == Len(hj.left) - Len(hj'.left)
             IN  /\ hj'.left = SubSeq(hj.left, pulled + 1, Len(hj.left))
                 /\ hj.inner # <<>> => pulled = 0
                 /\ \A i \in 1..(pulled - 1) : SuppliesNothing(hj.left[i])
                 /\ (pulled > 0 /\ hDone') => SuppliesNothing(hj.left[pulled])]_vars

\* The iterator is returned: both right rows are taken, neither left item.
C31_Witness ==
    /\ jPhase = "hash" /\ hj.status = "ok" /\ hOut = <<>>
    /\ Len(jin.right) = MaxRight /\ hj.right_rest = <<>>
    /\ Len(jin.left) = MaxLeft /\ hj.left = jin.left

\* A request was answered from a left item taken before: none was taken.
C31_WitnessBuffered ==
    /\ jPhase = "hash" /\ hj.status = "ok"
    /\ Len(hOut) = 2 /\ Len(hj.left) = 1 /\ Len(jin.left) = 2

\* C4: when the left input of nested_loop yields an error, the output stream
\* yields that error; it does not end normally with the error unsurfaced.
C4_LeftErrorSurfaced ==
    (nlDone /\ ~ErrorFree(jin.left)) => ErrItem("left_err") \in Range(nlOut)

\* C7: a candidate pair whose predicate evaluates to a non-boolean, non-NULL
\* value makes the nested loop join yield an evaluation error.
C7_NonBooleanPredicateErrors ==
    (/\ nlDone
     /\ ErrorFree(jin.left) /\ ErrorFree(jin.right)
     /\ jin.predicate.op = "Column"
     /\ \E i \in 1..Len(jin.left), k \in 1..Len(jin.right) :
           LET v == evaluate(jin.predicate, jin.left[i].row \o jin.right[k].row)
           IN  v.ok /\ v.val.t \notin {"Boolean", "Null"})
    => \E n \in 1..Len(nlOut) : ~nlOut[n].ok

-----------------------------------------------------------------------------
(* Properties of the transform operators. *)

\* C6: an error among the first N items of the source is yielded by
\* offset(source, N); it is not dropped as one of the skipped items.
C6_OffsetSurfacesErrors ==
    (/\ tDone
     /\ tin.args.op = "offset"
     /\ \E i \in 1..Len(tin.source) : i <= tin.args.n /\ ~tin.source[i].ok)
    => \E k \in 1..Len(tOut) : ~tOut[k].ok

\* The sort key of a row under the keys of an ORDER BY.
KeyOf(row, keys) == [i \in 1..Len(keys) |-> evaluate(keys[i].expr, row).val]

\* a sorts strictly before b: at the first position where the keys differ, a
\* is the smaller one for an ascending key, the larger one for a descending one.
KeyBefore(a, b, keys) ==
    \E p \in 1..Len(keys) :
        /\ \A q \in 1..(p - 1) : a[q] = b[q]
        /\ \/ keys[p].dir = Ascending /\ FieldCmp(a[p], b[p]) < 0
           \/ keys[p].dir = Descending /\ FieldCmp(a[p], b[p]) > 0

\* out is the input sorted by the keys, rows with equal keys in input order.
\* (The identity of the input item at position i is i.)
SortedStable(out, input, keys) ==
    /\ SameMultiset(out, input)
    /\ \A k \in 1..Len(out) : \A l \in (k + 1)..Len(out) :
          LET a == KeyOf(out[k].row, keys)
              b == KeyOf(out[l].row, keys)
          IN  /\ ~KeyBefore(b, a, keys)
              /\ a = b => out[k].rid < out[l].rid

OrderExampleKeys == <<Key(Column(1), Ascending), Key(Column(2), Descending)>>
OrderExampleRows ==
    <<<<Integer(1), Integer(2)>>, <<Integer(1), Integer(1)>>, <<Integer(2), Integer(0)>>>>

\* C11: transform::order outputs a permutation of its input sorted
\* lexicographically by the key vector, each key compared in its own
\* direction only, rows equal on every key in input order; the rows
\* (1,2),(1,1),(2,0) under (colA ascending, colB descending) stay as they are.
C11_OrderSortedStable ==
    /\ (tDone /\ tin.args.op = "order" /\ tr.status = "ok")
          => SortedStable(tOut, tin.source, tin.args.keys)
    /\ (tDone /\ tin.args.op = "order")
          => transform_items(order(SourceOf(OrderExampleRows), OrderExampleKeys))
                = SourceOf(OrderExampleRows)

\* Two rows equal on the first key are put in descending order of the second.
C11_Witness ==
    /\ tDone /\ tin.args.op = "order" /\ tr.status = "ok"
    /\ tin.args.keys = OrderExampleKeys
    /\ Len(tOut) = 2 /\ tOut[1].rid = 2
    /\ tOut[1].row[1] = tOut[2].row[1]

Min(a, b) == IF a < b THEN a ELSE b

\* C12: limit(source, n) yields the first min(n, len) items of the source in
\* order and takes at most n items from the source, none when n = 0; a limit
\* of m over a limit of n yields what a limit of min(n, m) yields.
C12_LimitTakesFirstN ==
    (tin.args.op = "limit" /\ tr # TransformNew) =>
        /\ Len(tin.source) - Len(tr.source) <= tin.args.n
        /\ tDone => tOut = SubSeq(tin.source, 1, Min(tin.args.n, Len(tin.source)))
        /\ tDone => \A m \in 0..(MaxSource + 1) :
              transform_items(limit(tOut, m))
                 = SubSeq(tin.source, 1, Min(Min(tin.args.n, m), Len(tin.source)))

C12_Witness ==
    /\ tDone /\ tin.args.op = "limit"
    /\ tin.args.n > 0 /\ tin.args.n < Len(tin.source)
    /\ Len(tOut) = tin.args.n

\* C13: for an error-free source of len rows, offset(source, k) drained
\* yields max(0, len - k) rows, the source's rows from position k on, in order.
C13_OffsetDropsFirstK ==
    (tDone /\ tin.args.op = "offset" /\ ErrorFree(tin.source)) =>
        /\ Len(tOut) = (IF Len(tin.source) > tin.args.n
                        THEN Len(tin.source) - tin.args.n ELSE 0)
        /\ \A i \in 1..Len(tOut) : tOut[i] = tin.source[tin.args.n + i]

C13_Witness ==
    /\ tDone /\ tin.args.op = "offset" /\ ErrorFree(tin.source)
    /\ tin.args.n > 0 /\ tin.args.n < Len(tin.source)
    /\ tOut # <<>>

\* What a filter owes for a source item: the item itself for an error of the
\* source or a row the predicate is true on, an error for a row the predicate
\* has another type on (or fails on), nothing for false and NULL.
FilterDrops(predicate, item) ==
    /\ item.ok
    /\ evaluate(predicate, item.row).ok
    /\ evaluate(predicate, item.row).val \in {Boolean(FALSE), Null}

FilterYields(predicate, item) ==
    IF ~item.ok THEN item
    ELSE IF ~evaluate(predicate, item.row).ok
    THEN ErrItem(evaluate(predicate, item.row).err)
    ELSE IF evaluate(predicate, item.row).val = Boolean(TRUE) THEN item
    ELSE ErrItem("invalid_input")

\* C14: transform::filter yields, in source order, the rows the predicate
\* is true on; the rows it is false or NULL on are dropped without error; a
\* row it has any other type on is an invalid-input error at that position.
C14_FilterKeepsTrue ==
    (tDone /\ tin.args.op = "filter") =>
        LET predicate == tin.args.exprs[1]
            kept == {i \in 1..Len(tin.source) : ~FilterDrops(predicate, tin.source[i])}
            rank(i) == Cardinality({k \in kept : k <= i})
        IN  /\ Len(tOut) = Cardinality(kept)
            /\ \A i \in kept : tOut[rank(i)] = FilterYields(predicate, tin.source[i])

\* A dropped row, then a row of another type than boolean.
C14_Witness ==
    /\ tDone /\ tin.args.op = "filter"
    /\ \E i \in 1..Len(tin.source) :
          tin.source[i].ok /\ ~FilterDrops(tin.args.exprs[1], tin.source[i])
          /\ evaluate(tin.args.exprs[1], tin.source[i].row).val # Boolean(TRUE)
    /\ \E i \in 1..Len(tin.source) : FilterDrops(tin.args.exprs[1], tin.source[i])

\* A kept row after a dropped one.
C14_WitnessKept ==
    /\ tDone /\ tin.args.op = "filter"
    /\ Len(tin.source) = 2 /\ Len(tOut) = 1
    /\ tOut[1] = tin.source[2] /\ tOut[1].ok

\* The greatest of the declared targets (1-based slots), 0 when there is none.
MaxTarget(targets) ==
    IF \A j \in 1..Len(targets) : targets[j] = 0 THEN 0
    ELSE CHOOSE m \in Range(targets) : \A j \in 1..Len(targets) : targets[j] <= m

\* C28: transform::remap yields for every source row a row as wide as the
\* greatest target slot (0 without targets), where a slot holds the value of
\* the source column sent to it and NULL when no column is sent to it, the
\* columns without a target are dropped and the identity is the source
\* row's; the errors of the source pass.
C28_RemapMovesColumns ==
    (tDone /\ tin.args.op = "remap") =>
        LET targets == tin.args.targets
        IN  /\ Len(tOut) = Len(tin.source)
            /\ \A i \in 1..Len(tOut) :
                  IF ~tin.source[i].ok THEN tOut[i] = tin.source[i]
                  ELSE /\ tOut[i].ok
                       /\ tOut[i].rid = tin.source[i].rid
                       /\ Len(tOut[i].row) = MaxTarget(targets)
                       /\ \A t \in 1..MaxTarget(targets) :
                             LET sent == {j \in 1..Len(targets) : targets[j] = t}
                             IN  IF sent = {} THEN tOut[i].row[t] = Null
                                 ELSE tOut[i].row[t] \in {tin.source[i].row[j] : j \in sent}

\* The first column is sent to the third slot, the second is dropped: the
\* row is three wide, its first two slots NULL.
C28_Witness ==
    /\ tDone /\ tin.args.op = "remap" /\ tin.args.targets = <<3, 0>>
    /\ Len(tOut) = 1 /\ tOut[1].ok
    /\ tin.source[1].row[1] # Null /\ tin.source[1].row[2] # Null
    /\ tOut[1].row = <<Null, Null, tin.source[1].row[1]>>
    /\ tOut[1].rid = tin.source[1].rid /\ tOut[1].rid # INVALID_RID

-----------------------------------------------------------------------------
(* Properties of the aggregation engine. *)

\* C9: on an empty input without GROUP BY, aggregate emits exactly one row,
\* whose i-th field is 0 for a Count and NULL for a Sum, Average, Max or Min.
C9_EmptyInputRow ==
    (aRes.status = "ok" /\ ain.source = <<>> /\ ain.group_by = <<>>)
    => aRes.rows =
          <<OkItem(INVALID_RID,
                   [i \in 1..Len(ain.aggregates) |->
                       IF ain.aggregates[i].kind = "Count" THEN Integer(0) ELSE Null])>>

C9_Witness ==
    /\ aRes.status = "ok" /\ ain.source = <<>> /\ ain.group_by = <<>>
    /\ Len(aRes.rows) = 1
    /\ \E i, k \in 1..Len(ain.aggregates) :
          ain.aggregates[i].kind = "Count" /\ ain.aggregates[k].kind = "Average"

GroupKey(row) == evaluate_all(ain.group_by, row).vals

DistinctKeys == {GroupKey(ain.source[i].row) : i \in 1..Len(ain.source)}

\* The rows of the source whose GROUP BY key vector is key.
RowsOfKey(key) ==
    LET InBucket(item) == GroupKey(item.row) = key
    IN  SelectSeq(ain.source, InBucket)

\* C10: with GROUP BY, aggregate emits one row per distinct key vector of the
\* input, in ascending key order, each the key fields followed by the values
\* the aggregates take over that key's rows, in the requested order.
C10_OneRowPerKey ==
    (aRes.status = "ok" /\ ain.group_by # <<>> /\ ErrorFree(ain.source))
    => LET g == Len(ain.group_by)
           out == aRes.rows
       IN  /\ Len(out) = Cardinality(DistinctKeys)
           /\ \A i \in 1..Len(out) :
                 /\ out[i].ok
                 /\ Len(out[i].row) = g + Len(ain.aggregates)
                 /\ SubSeq(out[i].row, 1, g) \in DistinctKeys
                 /\ LET alone == aggregate(RowsOfKey(SubSeq(out[i].row, 1, g)),
                                           <<>>, ain.aggregates)
                    IN  /\ alone.status = "ok"
                        /\ SubSeq(out[i].row, g + 1, Len(out[i].row)) = alone.rows[1].row
           /\ \A i, k \in 1..Len(out) :
                 i < k => VecCmp(SubSeq(out[i].row, 1, g), SubSeq(out[k].row, 1, g)) < 0

C10_Witness ==
    /\ aRes.status = "ok" /\ ain.group_by # <<>> /\ ErrorFree(ain.source)
    /\ Len(ain.source) = 2
    /\ Len(aRes.rows) = 2
    /\ Len(ain.aggregates) >= 2
    /\ VecCmp(GroupKey(ain.source[1].row), GroupKey(ain.source[2].row)) > 0

\* The values the j-th aggregate expression takes on the rows of the bucket
\* of an output row, in stream order.
BucketValues(out_row, j) ==
    LET rows == RowsOfKey(SubSeq(out_row, 1, Len(ain.group_by)))
    IN  [n \in 1..Len(rows) |-> evaluate(ain.aggregates[j].expr, rows[n].row).val]

\* The value of the j-th aggregate in an output row.
AggregateValue(out_row, j) == out_row[Len(ain.group_by) + j]

\* C24: the value of a Count is the number of the bucket's rows whose
\* aggregate expression is not NULL; a NULL input leaves the count as it is.
C24_CountNonNull ==
    aRes.status = "ok" =>
        \A i \in 1..Len(aRes.rows), j \in 1..Len(ain.aggregates) :
            (aRes.rows[i].ok /\ ain.aggregates[j].kind = "Count") =>
                LET vals == BucketValues(aRes.rows[i].row, j)
                IN  AggregateValue(aRes.rows[i].row, j) =
                        Integer(Cardinality({n \in 1..Len(vals) : vals[n] # Null}))

\* A bucket of a NULL and a non-NULL input counts one.
C24_Witness ==
    /\ aRes.status = "ok" /\ Len(ain.source) = 2 /\ Len(aRes.rows) = 1
    /\ aRes.rows[1].ok
    /\ \E j \in 1..Len(ain.aggregates) :
          /\ ain.aggregates[j].kind = "Count"
          /\ BucketValues(aRes.rows[1].row, j)[1] = Null
          /\ BucketValues(aRes.rows[1].row, j)[2] # Null
          /\ AggregateValue(aRes.rows[1].row, j) = Integer(1)

\* The sum of the first n of a sequence of Integer fields, and whether it
\* and the sums before it are in the range of an i32.
RECURSIVE IntSum(_, _)
IntSum(vals, n) ==
    IF n = 0 THEN [fits |-> TRUE, sum |-> 0]
    ELSE LET before == IntSum(vals, n - 1)
             v == vals[n].v
         IN  IF ~before.fits THEN before
             ELSE IF (v > 0 /\ before.sum > I32_MAX - v)
                     \/ (v < 0 /\ before.sum < I32_MIN - v)
             THEN [fits |-> FALSE, sum |-> 0]
             ELSE [fits |-> TRUE, sum |-> before.sum + v]

Integers(vals) == vals # <<>> /\ \A n \in 1..Len(vals) : vals[n].t = "Integer"

\* The buckets: the key vectors of the source, or the one bucket of an
\* aggregation without GROUP BY.
Buckets == IF ain.group_by = <<>> THEN {<<>>} ELSE DistinctKeys

\* The output rows of a bucket.
ItemsOfKey(key) ==
    {i \in 1..Len(aRes.rows) :
        aRes.rows[i].ok /\ SubSeq(aRes.rows[i].row, 1, Len(ain.group_by)) = key}

\* The sum of the integers of some bucket is beyond the range of an i32.
SumOverflows ==
    \E k \in Buckets, j \in 1..Len(ain.aggregates) :
        LET vals == BucketValues(k, j)
        IN  /\ ain.aggregates[j].kind = "Sum"
            /\ Integers(vals)
            /\ ~IntSum(vals, Len(vals)).fits

\* C25: over the non-NULL integers v1..vn (n >= 1) of a bucket, Sum is
\* v1 + ... + vn and fails when that overflows, Max is the greatest and Min
\* the least of them (v1 when n = 1).
C25_SumMaxMin ==
    /\ aRes.status = "ok" =>
          \A i \in 1..Len(aRes.rows), j \in 1..Len(ain.aggregates) :
              LET vals == BucketValues(aRes.rows[i].row, j)
                  v == AggregateValue(aRes.rows[i].row, j)
                  kind == ain.aggregates[j].kind
              IN  (aRes.rows[i].ok /\ Integers(vals)) =>
                      /\ kind = "Sum" =>
                            /\ IntSum(vals, Len(vals)).fits
                            /\ v = Integer(IntSum(vals, Len(vals)).sum)
                      /\ kind = "Max" =>
                            /\ v \in Range(vals)
                            /\ \A n \in 1..Len(vals) : vals[n].v <= v.v
                      /\ kind = "Min" =>
                            /\ v \in Range(vals)
                            /\ \A n \in 1..Len(vals) : vals[n].v >= v.v
                      /\ (kind \in {"Sum", "Max", "Min"} /\ Len(vals) = 1) => v = vals[1]
    /\ (aRes # AggNew /\ ErrorFree(ain.source) /\ SumOverflows) => aRes.status = "err"

\* A bucket of two integers, the second the greater: Max replaced the value
\* it held, and their sum is the largest integer.
C25_Witness ==
    /\ aRes.status = "ok" /\ Len(ain.source) = 2 /\ Len(aRes.rows) = 1
    /\ aRes.rows[1].ok
    /\ \E j, k \in 1..Len(ain.aggregates) :
          /\ ain.aggregates[j].kind = "Sum" /\ ain.aggregates[k].kind = "Max"
          /\ Integers(BucketValues(aRes.rows[1].row, j))
          /\ AggregateValue(aRes.rows[1].row, j) = Integer(I32_MAX)
          /\ BucketValues(aRes.rows[1].row, k) = <<Integer(1), Integer(I32_MAX - 1)>>
          /\ AggregateValue(aRes.rows[1].row, k) = Integer(I32_MAX - 1)

\* The sum of a bucket overflowed and the aggregation failed.
C25_WitnessOverflow ==
    /\ aRes.status = "err" /\ ErrorFree(ain.source) /\ SumOverflows

\* The running sum of an Average over the values: checked additions from
\* Integer(0).
RECURSIVE RunningSum(_, _)
RunningSum(vals, n) ==
    IF n = 0 THEN EvalOk(Integer(0))
    ELSE LET before == RunningSum(vals, n - 1)
         IN  IF ~before.ok THEN before ELSE checked_add(before.val, vals[n])

\* C26: the value of an Average is NULL when nothing was added, and else
\* the checked division of the running sum, accumulated by checked addition,
\* by the number of values added.
C26_AverageIsSumByCount ==
    aRes.status = "ok" =>
        \A key \in Buckets, j \in 1..Len(ain.aggregates) :
            ain.aggregates[j].kind = "Average" =>
                LET vals == BucketValues(key, j)
                    sum == RunningSum(vals, Len(vals))
                    quotient == checked_div(sum.val, Integer(Len(vals)))
                IN  /\ sum.ok
                    /\ IF vals = <<>>
                       THEN \A i \in ItemsOfKey(key) :
                               AggregateValue(aRes.rows[i].row, j) = Null
                       ELSE IF quotient.ok
                       THEN \A i \in ItemsOfKey(key) :
                               AggregateValue(aRes.rows[i].row, j) = quotient.val
                       ELSE ItemsOfKey(key) = {}

\* Two integers in one bucket: the average is their sum by two.
C26_Witness ==
    /\ aRes.status = "ok" /\ Len(ain.source) = 2 /\ Len(aRes.rows) = 1
    /\ aRes.rows[1].ok
    /\ \E j \in 1..Len(ain.aggregates) :
          /\ ain.aggregates[j].kind = "Average"
          /\ Integers(BucketValues(aRes.rows[1].row, j))
          /\ Len(BucketValues(aRes.rows[1].row, j)) = 2
          /\ AggregateValue(aRes.rows[1].row, j) = Integer(1)

-----------------------------------------------------------------------------
(* Properties of the schema model. *)

\* C8: Table::merge(d1, d2) gives every column, fixed-width and text, the
\* stored offset, and the table the fixed-region size, of the schema rebuilt
\* by add_column over d1's then d2's columns (From<(Table, Table)>).
C8_MergeRebuildsOffsets ==
    merged.done =>
        /\ merged.merge.fixed_field_size_bytes = merged.from.fixed_field_size_bytes
        /\ Len(merged.merge.columns) = Len(merged.from.columns)
        /\ \A i \in 1..Len(merged.merge.columns) :
              merged.merge.columns[i] = merged.from.columns[i]

\* The sum of the byte widths of the columns before position i that are not
\* Text.
RECURSIVE FixedWidthBefore(_, _)
FixedWidthBefore(columns, i) ==
    IF i <= 1 THEN 0
    ELSE FixedWidthBefore(columns, i - 1)
         + (IF columns[i - 1].data_type = "Text" THEN 0
            ELSE length_bytes(columns[i - 1].data_type))

\* The number of Text columns before position i.
TextBefore(columns, i) ==
    Cardinality({j \in 1..(i - 1) : columns[j].data_type = "Text"})

\* The offsets and the fixed-region size of a schema follow its column order.
OffsetsConsistent(schema) ==
    /\ \A i \in 1..Len(schema.columns) :
          schema.columns[i].stored_offset =
              IF schema.columns[i].data_type = "Text"
              THEN TextBefore(schema.columns, i)
              ELSE FixedWidthBefore(schema.columns, i)
    /\ schema.fixed_field_size_bytes =
          FixedWidthBefore(schema.columns, Len(schema.columns) + 1)

\* C21: in a schema built by add_column calls (one by one, or by the loop of
\* with_columns and of the From conversions), a column that is not Text is
\* stored at the sum of the byte widths of the non-Text columns before it, a
\* Text column at the number of Text columns before it, and the fixed-region
\* size is the sum of the byte widths of all non-Text columns.
C21_OffsetsFollowOrder ==
    /\ OffsetsConsistent(table1)
    /\ OffsetsConsistent(table2)
    /\ merged.done => OffsetsConsistent(merged.from)

C21_Witness ==
    /\ merged.done
    /\ Len(table1.columns) = MaxColumns /\ Len(table2.columns) = MaxColumns
    /\ table1.columns[2].data_type = "Text" /\ table1.columns[2].stored_offset = 0
    /\ table2.columns[1].data_type = "Text"
    /\ table2.columns[2].data_type = "Int" /\ table2.columns[2].stored_offset = 0
    /\ merged.from.columns[3].stored_offset = 1
    /\ merged.from.columns[4].stored_offset > 0

\* The default of a column, when it has one that is not NULL, is of the
\* column's data type.
DefaultTyped(c) ==
    (c.default # NoField /\ c.default # Null) => get_type(c.default) = c.data_type

\* C22: every column constructed by Column::new, by a ColumnBuilder or by
\* TableBuilder::column that carries a default value has a default of the
\* column's data type.
C22_DefaultTypeMatches ==
    /\ built # NoColumn => DefaultTyped(built.column)
    /\ \A i \in 1..Len(tbuilder) : DefaultTyped(tbuilder[i])

-----------------------------------------------------------------------------
(* Properties of the executor and of the write operators. *)

\* C3: when the storage call Transaction::delete fails, write::delete, and
\* with it the Delete statement, returns that error and no deleted-row count.
C3_DeleteErrorPropagated ==
    (/\ xres.kind = "Delete"
     /\ \E i \in 1..Len(xcalls) : xcalls[i].call = "delete" /\ ~xcalls[i].ok)
    => xres.status = "err" /\ xres.err = "storage"

\* The rows of the given keys, one lookup per key in the order given, the
\* keys without a stored row skipped.
RECURSIVE LookupRows(_, _)
LookupRows(st, keys) ==
    IF keys = <<>> THEN <<>>
    ELSE (IF Head(keys) \in DOMAIN st
          THEN <<OkItem(Head(keys), st[Head(keys)])>> ELSE <<>>)
         \o LookupRows(st, Tail(keys))

\* C5: execute returns a row stream or an error for every node kind, never
\* aborts; an Offset node yields its source without the first N items, a
\* KeyLookup node the rows of the given keys in key order.
C5_ExecuteReturns ==
    xres.kind = "Select" =>
        /\ xres.status \in {"ok", "err"}
        /\ xplan.root.kind = "Offset" =>
              LET src == execute(xplan.root.source,
                                 [store |-> storage, scan_fault |-> xplan.scan_fault])
              IN  src.status = "ok" =>
                    /\ xres.status = "ok"
                    /\ xres.rows = DropFirst(src.rows, xplan.root.offset)
        /\ xplan.root.kind = "KeyLookup" =>
              /\ xres.status = "ok"
              /\ xres.rows = LookupRows(storage, xplan.root.keys)

-----------------------------------------------------------------------------
(* Properties of the write operators and of the statements. *)

\* The identities of the rows of a source.
SourceRids(source) == {source[i].rid : i \in 1..Len(source)}

\* The position of the last row of the source that has the identity.
LastWith(source, rid) ==
    CHOOSE i \in 1..Len(source) :
        /\ source[i].rid = rid
        /\ \A k \in (i + 1)..Len(source) : source[k].rid # rid

\* Every row of the source is there and takes the assignments.
Updatable(source, expressions) ==
    /\ ErrorFree(source)
    /\ \A i \in 1..Len(source) : apply_expressions(source[i].row, expressions).ok

\* C15: when the source of write::update holds several rows of the same
\* identity, the one batched Transaction::update call carries one entry per
\* distinct identity, the mutated row of the last source row with that
\* identity, and update returns the number of distinct identities.
C15_UpdateLastWriteWins ==
    (/\ wout # WriteNew
     /\ win.op = "update"
     /\ Updatable(win.source, win.expressions))
    => /\ Len(wout.calls) = 1
       /\ wout.calls[1].call = "update"
       /\ DOMAIN wout.calls[1].rows = SourceRids(win.source)
       /\ \A r \in SourceRids(win.source) :
             wout.calls[1].rows[r]
                = apply_expressions(win.source[LastWith(win.source, r)].row,
                                    win.expressions).row
       /\ wout.res.status = "ok"
             => wout.res.count = Cardinality(SourceRids(win.source))

\* Two rows of one identity that are mutated to different rows: one update.
C15_Witness ==
    /\ wout # WriteNew /\ win.op = "update" /\ Len(win.source) = 2
    /\ Updatable(win.source, win.expressions)
    /\ win.source[1].rid = win.source[2].rid
    /\ apply_expressions(win.source[1].row, win.expressions).row
          # apply_expressions(win.source[2].row, win.expressions).row
    /\ wout.res.status = "ok" /\ wout.res.count = 1

\* A row satisfies a filter: there is none, or it evaluates to true on it.
Satisfies(filter_expr, row) ==
    \/ filter_expr = NoPredicate
    \/ /\ filter_expr # NoPredicate
       /\ evaluate(filter_expr, row) = EvalOk(Boolean(TRUE))

\* The filter has a truth value (true, false or NULL) on the row.
Decides(filter_expr, row) ==
    \/ filter_expr = NoPredicate
    \/ /\ filter_expr # NoPredicate
       /\ evaluate(filter_expr, row).ok
       /\ evaluate(filter_expr, row).val \in {Boolean(TRUE), Boolean(FALSE), Null}

\* A step that executes a Delete statement over a scan, the storage not failing.
DeleteStep ==
    /\ xplan'.kind = "Delete"
    /\ xplan'.scan_fault = 0 /\ xplan'.fail = 0
    /\ \A r \in DOMAIN storage : Decides(xplan'.source.filter, storage[r])

\* C16: a Delete whose source scans the table filtered by p removes exactly
\* the stored rows satisfying p, leaves the others as they are and returns
\* their count; the same Delete executed again succeeds with count 0.
C16_DeleteRemovesMatching ==
    [][DeleteStep =>
         LET matching == {r \in DOMAIN storage :
                             Satisfies(xplan'.source.filter, storage[r])}
         IN  /\ xres'.status = "ok"
             /\ xres'.count = Cardinality(matching)
             /\ DOMAIN storage' = DOMAIN storage \ matching
             /\ \A r \in DOMAIN storage' : storage'[r] = storage[r]
             /\ (xplan = xplan' /\ xres.status = "ok") => xres'.count = 0]_vars

\* A Delete that removed one of two stored rows.
C16_Witness ==
    /\ xplan.kind = "Delete" /\ xplan.scan_fault = 0 /\ xplan.fail = 0
    /\ xplan.source.filter # NoPredicate
    /\ xres.status = "ok" /\ xres.count = 1
    /\ Cardinality(DOMAIN storage) = 1

\* C17: for an error-free source of n rows, Insert hands the rows to the
\* storage in source order and returns n identities, the i-th the one the
\* storage assigned to the i-th row, none repeated; the count is n and the
\* identities the source rows carried play no part.
C17_InsertIdentities ==
    (/\ wout # WriteNew
     /\ win.op = "insert"
     /\ ErrorFree(win.source)
     /\ win.fail = 0)
    => LET n == Len(win.source)
           ids == wout.res.record_ids
       IN  /\ wout.res.status = "ok"
           /\ wout.res.count = n
           /\ Len(ids) = n
           /\ \A i \in 1..n : \A j \in 1..n : ids[i] = ids[j] => i = j
           /\ \A i \in 1..n :
                 /\ ids[i] \notin DOMAIN win.store
                 /\ wout.store[ids[i]] = win.source[i].row
           /\ DOMAIN wout.store = DOMAIN win.store \cup Range(ids)
           /\ \A r \in DOMAIN win.store : wout.store[r] = win.store[r]
           /\ Len(wout.calls) = 1
           /\ wout.calls[1].rows = [i \in 1..n |-> win.source[i].row]

\* Two different rows inserted, their source identities those of stored rows.
C17_Witness ==
    /\ wout # WriteNew /\ win.op = "insert" /\ win.fail = 0
    /\ ErrorFree(win.source) /\ Len(win.source) = 2
    /\ win.source[1].row # win.source[2].row
    /\ win.source[1].rid \in DOMAIN win.store
    /\ wout.res.status = "ok" /\ Len(wout.res.record_ids) = 2

\* The statement ran without a failure of the storage.
NoCatalogFault == ~cres.txn.fetch_fault /\ ~cres.txn.store_fault

\* C18: CreateTable for a name present in the catalog fails with an
\* invalid-input error and leaves the definition as it is; for an absent name
\* it succeeds, returns CreateTable{name}, and the table is present afterwards.
C18_CreateTableValidated ==
    (cres.kind = "CreateTable" /\ NoCatalogFault) =>
        LET before == cres.txn.tables
            name == cres.schema.name
        IN  IF name \in DOMAIN before
            THEN /\ cres.res.status = "err"
                 /\ cres.res.err = "invalid_input"
                 /\ tables = before
            ELSE /\ cres.res.status = "ok"
                 /\ cres.res.kind = "CreateTable"
                 /\ cres.res.name = name
                 /\ DOMAIN tables = DOMAIN before \cup {name}
                 /\ tables[name] = cres.schema
                 /\ \A n \in DOMAIN before : tables[n] = before[n]

\* A CreateTable with another definition for a table that is present.
C18_Witness ==
    /\ cres.kind = "CreateTable" /\ NoCatalogFault
    /\ cres.schema.name \in DOMAIN cres.txn.tables
    /\ cres.txn.tables[cres.schema.name] # cres.schema
    /\ cres.txn.clash = "overwrite"
    /\ cres.res.status = "err"

\* C19: DropTable of an absent table fails with an invalid-input error when
\* ifExists is false and succeeds with existed = false when it is true;
\* DropTable of a present table removes it, with existed = true. A table is
\* present exactly when the last statement that succeeded on it is a CreateTable.
C19_DropTableReports ==
    /\ (cres.kind = "DropTable" /\ NoCatalogFault) =>
          LET before == cres.txn.tables
          IN  /\ (cres.table \notin DOMAIN before /\ ~cres.if_exists)
                    => /\ cres.res.status = "err"
                       /\ cres.res.err = "invalid_input"
                       /\ tables = before
              /\ (cres.table \notin DOMAIN before /\ cres.if_exists)
                    => /\ cres.res.status = "ok"
                       /\ cres.res.existed = FALSE
                       /\ tables = before
              /\ cres.table \in DOMAIN before
                    => /\ cres.res.status = "ok"
                       /\ cres.res.existed = TRUE
                       /\ DOMAIN tables = DOMAIN before \ {cres.table}
                       /\ \A n \in DOMAIN tables : tables[n] = before[n]
    /\ \A n \in TableNames :
          clast[n] # "none" => (n \in DOMAIN tables <=> clast[n] = "create")

\* A present table is dropped after another one was created by a statement.
C19_Witness ==
    /\ cres.kind = "DropTable" /\ NoCatalogFault
    /\ cres.table \in DOMAIN cres.txn.tables
    /\ cres.res.status = "ok" /\ cres.res.existed
    /\ \E n \in TableNames \ {cres.table} : clast[n] = "create"

\* C20: the labels Select returns are root.column_label(i) for
\* i = 0 .. root.columns()-1 in index order, and they are there before the
\* root is executed, so before any row is pulled from it or from storage.
C20_LabelsBeforeRows ==
    LET labels == [k \in 1..node_columns(sel.root) |->
                      [of |-> sel.root.kind, index |-> k - 1]]
    IN  /\ sel.pc = "start" => sel.result = NoStatement
        /\ sel.pc = "labels" => sel.columns = labels /\ sel.result = NoStatement
        /\ sel.pc = "done" => sel.columns = labels /\ sel.result.columns = labels

\* The labels of a two-column scan are there, nothing is executed yet.
C20_Witness ==
    /\ sel.pc = "labels" /\ sel.root.kind = "Scan"
    /\ Len(sel.columns) = 2 /\ sel.columns[1].index = 0
    /\ sel.txn.store # <<>> /\ sel.result = NoStatement

\* The rows of the last Select come from an operator that computes rows.
Computed ==
    /\ sel.pc = "done" /\ sel.result.status = "ok"
    /\ sel.root.kind \in {"NestedLoopJoin", "HashJoin", "Aggregate"}

\* The root reads stored rows, which carry their record identities.
OverStoredRows ==
    /\ sel.txn.store # <<>> /\ sel.txn.scan_fault = 0
    /\ IF sel.root.kind = "Aggregate" THEN sel.root.source = Scan(NoPredicate)
       ELSE sel.root.left = Scan(NoPredicate)

\* C23: every row nested_loop, hash and aggregate emit, the NULL-padded outer
\* rows and the single row for empty input included, carries INVALID_RID,
\* whatever identities the input rows carried.
C23_ComputedRowsInvalidRid ==
    Computed =>
        \A i \in 1..Len(sel.result.rows) :
            sel.result.rows[i].ok => sel.result.rows[i].rid = INVALID_RID

\* An outer hash join over stored rows emitted a NULL-padded row.
C23_Witness ==
    /\ Computed /\ OverStoredRows
    /\ sel.root.kind = "HashJoin" /\ sel.root.outer
    /\ \E i \in 1..Len(sel.result.rows) :
          /\ sel.result.rows[i].ok
          /\ sel.result.rows[i].row[TableWidth + 1] = Null
          /\ sel.result.rows[i].rid = INVALID_RID

\* A nested loop join over stored rows emitted a joined row.
C23_WitnessNestedLoop ==
    /\ Computed /\ OverStoredRows
    /\ sel.root.kind = "NestedLoopJoin"
    /\ sel.result.rows # <<>> /\ sel.result.rows[1].ok

\* An aggregation over stored rows emitted one row per bucket.
C23_WitnessAggregate ==
    /\ Computed /\ OverStoredRows
    /\ sel.root.kind = "Aggregate" /\ sel.root.group_by # <<>>
    /\ Len(sel.result.rows) = 2 /\ sel.result.rows[2].ok

\* An aggregation without groups over no rows emitted its single row.
C23_WitnessEmpty ==
    /\ Computed
    /\ sel.root.kind = "Aggregate" /\ sel.root.group_by = <<>>
    /\ sel.root.source = Nothing
    /\ Len(sel.result.rows) = 1 /\ sel.result.rows[1].ok

\* The row after the first k assignments, each expression evaluated on the
\* row the assignments before it left.
RECURSIVE AssignedInOrder(_, _, _)
AssignedInOrder(row, expressions, k) ==
    IF k = 0 THEN row
    ELSE LET before == AssignedInOrder(row, expressions, k - 1)
         IN  [before EXCEPT ![expressions[k].column_index] =
                                evaluate(expressions[k].expression, before).val]

\* C27: write::update applies the assignments of a row one at a time in list
\* order, each expression evaluated on the row as the earlier assignments
\* left it, not on the row the source gave.
C27_UpdateSequential ==
    (/\ wout # WriteNew
     /\ win.op = "update"
     /\ Updatable(win.source, win.expressions))
    => /\ Len(wout.calls) = 1
       /\ \A r \in SourceRids(win.source) :
             wout.calls[1].rows[r]
                = AssignedInOrder(win.source[LastWith(win.source, r)].row,
                                  win.expressions, Len(win.expressions))

\* "a = b, b = a" on a row whose fields differ: both fields end as b.
C27_Witness ==
    /\ wout # WriteNew /\ win.op = "update" /\ Len(win.source) = 1
    /\ win.expressions = <<Assign(1, Column(2)), Assign(2, Column(1))>>
    /\ win.source[1].ok /\ win.source[1].row[1] # win.source[1].row[2]
    /\ Len(wout.calls) = 1
    /\ wout.calls[1].rows[win.source[1].rid]
          = <<win.source[1].row[2], win.source[1].row[2]>>

-----------------------------------------------------------------------------
(* Properties of the row streams. *)

\* What the hash join yields for the first k left items: an error of the
\* left source as it is, the joined rows of a row.
RECURSIVE HashYields(_)
HashYields(k) ==
    IF k = 0 THEN <<>>
    ELSE LET item == jin.left[k]
             m == MatchesOf("hash", item.row, Len(jin.right))
         IN  HashYields(k - 1)
             \o (IF ~item.ok THEN <<item>>
                 ELSE IF m = <<>> /\ jin.outer THEN <<Padded(item.row)>>
                 ELSE m)

\* The position of the first error of a stream that has one.
FirstErrorAt(s) ==
    CHOOSE i \in 1..Len(s) : ~s[i].ok /\ \A k \in 1..(i - 1) : s[k].ok

\* The errors of the source of a filter, project or remap are yielded as
\* they are, where they occurred among the items yielded.
TransformPassesErrors ==
    (tDone /\ tin.args.op \in {"filter", "project", "remap"}) =>
        LET dropped == IF tin.args.op # "filter" THEN {}
                       ELSE {i \in 1..Len(tin.source) :
                                FilterDrops(tin.args.exprs[1], tin.source[i])}
            rank(i) == i - Cardinality({k \in dropped : k < i})
        IN  /\ Len(tOut) = Len(tin.source) - Cardinality(dropped)
            /\ \A i \in 1..Len(tin.source) :
                  ~tin.source[i].ok => tOut[rank(i)] = tin.source[i]

\* An error of the right source is the error of the call of join::hash,
\* which takes nothing after it; the errors of the left source are yielded
\* where they occurred.
HashPassesErrors ==
    /\ (jPhase \in {"hash", "end"} /\ hj.status # "new" /\ ~ErrorFree(jin.right)) =>
          /\ hj.status = "err"
          /\ hj.err = jin.right[FirstErrorAt(jin.right)].err
          /\ hj.right_rest = DropFirst(jin.right, FirstErrorAt(jin.right))
          /\ hj.left = jin.left
          /\ hOut = <<>>
    /\ (hDone /\ ErrorFree(jin.right)) => hOut = HashYields(Len(jin.left))

\* C32: an error item of the child stream is surfaced, not dropped and not
\* turned into the end of the stream: filter, project and remap yield it
\* unchanged where it occurred; join::hash fails in the call on an error of
\* the right stream, taking no right item after it, and yields an error of
\* the left stream where it occurred.
C32_ChildErrorsSurface == TransformPassesErrors /\ HashPassesErrors

\* A filter dropped a row and yielded the error that followed it.
C32_Witness ==
    /\ tDone /\ tin.args.op = "filter" /\ Len(tin.source) = 2
    /\ FilterDrops(tin.args.exprs[1], tin.source[1])
    /\ ~tin.source[2].ok
    /\ tOut = <<tin.source[2]>>

\* The hash join yielded the rows of a left row, then the error after it.
C32_WitnessLeftError ==
    /\ hDone /\ ErrorFree(jin.right) /\ Len(jin.left) = 2
    /\ jin.left[1].ok /\ ~jin.left[2].ok
    /\ Len(hOut) = 3 /\ hOut[3] = jin.left[2]

\* The call of join::hash failed on the first of two right items.
C32_WitnessRightError ==
    /\ jPhase = "hash" /\ hj.status = "err" /\ Len(jin.right) = 2
    /\ ~jin.right[1].ok /\ hj.right_rest = <<jin.right[2]>>

\* The items of Transaction::scan(table, None) on the table of the Select.
Unfiltered == txn_scan(sel.txn, NoPredicate).rows

\* C33: Transaction::scan(table, Some(p)) yields the items and errors of
\* transform::filter(Transaction::scan(table, None), p): the rows p is true
\* on in scan order, none of the rows p is false or NULL on, and an
\* invalid-input error for a row p is not a boolean on.
C33_ScanFilterIsFilter ==
    (sel.pc = "done" /\ sel.root.kind = "Scan" /\ sel.root.filter # NoPredicate) =>
        LET p == sel.root.filter
            kept == {i \in 1..Len(Unfiltered) : ~FilterDrops(p, Unfiltered[i])}
            rank(i) == Cardinality({k \in kept : k <= i})
        IN  /\ sel.result.status = "ok"
            /\ sel.result.rows = transform_items(filter(Unfiltered, p))
            /\ Len(sel.result.rows) = Cardinality(kept)
            /\ \A i \in kept : sel.result.rows[rank(i)] = FilterYields(p, Unfiltered[i])

\* A row the filter is false on is dropped, the row after it is kept.
C33_Witness ==
    /\ sel.pc = "done" /\ sel.root = Scan(Equal(1, 2)) /\ sel.txn.scan_fault = 0
    /\ Len(Unfiltered) = 2
    /\ evaluate(sel.root.filter, Unfiltered[1].row).val = Boolean(FALSE)
    /\ sel.result.rows = <<Unfiltered[2]>>

\* A row the filter is an integer on is an invalid-input error.
C33_WitnessInvalid ==
    /\ sel.pc = "done" /\ sel.root = Scan(Column(1))
    /\ Len(sel.result.rows) = 2
    /\ sel.result.rows[2] = ErrItem("invalid_input")

-----------------------------------------------------------------------------
(* Properties of failed writes. *)

\* The error of the first assignment that fails to evaluate on a row, each
\* evaluated on the row the assignments before it left; "none" if all do.
AssignmentError(row, expressions) ==
    LET failing == {k \in 1..Len(expressions) :
                       ~evaluate(expressions[k].expression,
                                 AssignedInOrder(row, expressions, k - 1)).ok}
    IN  IF failing = {} THEN "none"
        ELSE LET k == CHOOSE m \in failing : \A n \in failing : m <= n
             IN  evaluate(expressions[k].expression,
                          AssignedInOrder(row, expressions, k - 1)).err

\* The error a source item makes the write operator fail with: the error of
\* the source, or for an update that of an assignment; "none" if neither.
ItemError(item) ==
    IF ~item.ok THEN item.err
    ELSE IF win.op = "update" THEN AssignmentError(item.row, win.expressions)
    ELSE "none"

FailingItems == {i \in 1..Len(win.source) : ItemError(win.source[i]) # "none"}

\* C34: when the source of write::delete, insert or update yields an error,
\* or an assignment of an update fails to evaluate on a row, the operator
\* returns that error and has made no Transaction::delete, insert or update
\* call: the stored rows are as before.
C34_FailedWriteCallsNothing ==
    (wout # WriteNew /\ FailingItems # {}) =>
        LET first == CHOOSE i \in FailingItems : \A k \in FailingItems : i <= k
        IN  /\ wout.res.status = "err"
            /\ wout.res.err = ItemError(win.source[first])
            /\ wout.calls = <<>>
            /\ wout.store = win.store

\* An update over a stored table whose source fails after a row.
C34_Witness ==
    /\ wout # WriteNew /\ win.op = "update" /\ win.store # <<>>
    /\ Len(win.source) = 2 /\ win.source[1].ok /\ ~win.source[2].ok
    /\ AssignmentError(win.source[1].row, win.expressions) = "none"
    /\ wout.res.status = "err" /\ wout.calls = <<>>

\* An update whose assignment fails to evaluate on the second row.
C34_WitnessAssignment ==
    /\ wout # WriteNew /\ win.op = "update"
    /\ ErrorFree(win.source) /\ Len(win.source) = 2
    /\ FailingItems # {}
    /\ wout.res.status = "err" /\ wout.calls = <<>>

\* A delete and an insert whose source fails.
C34_WitnessDelete ==
    /\ wout # WriteNew /\ win.op = "delete" /\ FailingItems # {}
    /\ win.source[1].ok /\ wout.calls = <<>>

C34_WitnessInsert ==
    /\ wout # WriteNew /\ win.op = "insert" /\ FailingItems # {}
    /\ win.source[1].ok /\ wout.calls = <<>>

-----------------------------------------------------------------------------
(* Properties of the identity of transformed rows. *)

\* The rows of the source, each with its identity.
SourceRows == {tin.source[i] : i \in {k \in 1..Len(tin.source) : tin.source[k].ok}}

\* The rows emitted so far.
EmittedRows == {tOut[i] : i \in {k \in 1..Len(tOut) : tOut[k].ok}}

\* filter, limit, offset and order emit source rows as they are.
PassesRows ==
    tin.args.op \in {"filter", "limit", "offset", "order"} =>
        EmittedRows \subseteq SourceRows

\* project and remap emit one row for each source row, in the order of the
\* source, under the identity of that source row.
DerivesRows ==
    tin.args.op \in {"project", "remap"} =>
        \A i \in 1..Len(tOut) :
            tOut[i].ok => tin.source[i].ok /\ tOut[i].rid = tin.source[i].rid

\* C35: filter, project, limit, offset, order and remap emit every row under
\* the identity of the source row it was derived from; filter, limit,
\* offset and order also leave its field values as they were.
C35_TransformsKeepIdentity ==
    tin # <<>> => PassesRows /\ DerivesRows

\* A projection has emitted the second row of its source, with other values.
C35_Witness ==
    /\ tin # <<>> /\ tin.args.op = "project"
    /\ Len(tOut) = 2 /\ tOut[2].ok /\ tOut[2].rid = 2
    /\ tOut[2].row # tin.source[2].row

\* An order has emitted the second row of its source first.
C35_WitnessOrder ==
    /\ tin # <<>> /\ tin.args.op = "order" /\ tDone
    /\ Len(tOut) = 2 /\ tOut[1] = tin.source[2] /\ tOut[2] = tin.source[1]

\* A remap has emitted a row of another width under its source's identity.
C35_WitnessRemap ==
    /\ tin # <<>> /\ tin.args.op = "remap"
    /\ Len(tOut) = 1 /\ tOut[1].ok /\ tOut[1].rid = 1
    /\ Len(tOut[1].row) = 3

\* A filter and an offset have dropped the first row and emitted the second.
C35_WitnessFilter ==
    /\ tin # <<>> /\ tin.args.op \in {"filter", "offset"} /\ tDone
    /\ Len(tin.source) = 2 /\ tOut = <<tin.source[2]>>

====
